---- MODULE Spec2Model ----
(***************************************************************************)
(* State-machine model of the SubSynth voice engine                         *)
(* (plugins/subsynth/src/lib.rs, envelope.rs).                              *)
(*                                                                          *)
(* One render call, SubSynth::process, is followed step by step: the events *)
(* loop applies one host event per step, RenderBlock renders one sub-block  *)
(* (zero fill, per-sample voice loop, reap, advance of block_start).        *)
(*                                                                          *)
(* Abstractions:                                                            *)
(*  - time is counted in ticks of 1/TicksPerSecond second, so that the two  *)
(*    sample periods the program uses (host rate and the fixed 192000 Hz of *)
(*    find_or_create_voice) are both whole numbers of ticks; the time of an *)
(*    envelope is the exact sum of its sample periods over the samples of a *)
(*    render call, and SamplesToIdle, which looks beyond the call, follows  *)
(*    the rounding of the f32 sum the program keeps;                        *)
(*  - the durations and levels of an envelope are held in ticks (the value  *)
(*    x as x * TicksPerSecond); velocities are 0 or 1;                      *)
(*  - an output sample is the formal sum of the terms added into it: the    *)
(*    sequence of the voices accumulated, the content found at call time    *)
(*    being the term PriorTerm;                                             *)
(*  - envelope.rs carries unresolved merge hunks; each hunk is read on its  *)
(*    HEAD side (the side lib.rs is written against: seven-argument new,    *)
(*    Hold stage, advance), the lines outside the hunks are kept, and the   *)
(*    one local they use that only the other side binds,                    *)
(*    velocity_sensitive_release, keeps its binding release / velocity.     *)
(***************************************************************************)
EXTENDS Integers, Sequences, FiniteSets, TLC

\* ---------------------------------------------------------------- constants
NUM_VOICES == 16
MAX_BLOCK_SIZE == 64
TicksPerSecond == 192000

\* ------------------------------------------------------------------- bounds
\* events of one render call
MaxEvents == 2
\* host sample rate, in Hz
SampleRate == 3

Slots == 0 .. (NUM_VOICES - 1)

\* Option<i32>: None is the empty sequence, Some(x) the one-element sequence
None == << >>
Some(x) == << x >>
unwrap_or(opt, d) == IF opt = None THEN d ELSE opt[1]

Min2(a, b) == IF a <= b THEN a ELSE b

\* ------------------------------------------------------ global parameters
\* the values of SubSynthParams read by construct_envelopes; a value x is held
\* as the whole number x * TicksPerSecond (a duration of x seconds in ticks,
\* a level x in units of 1 / TicksPerSecond)
Params ==
  [ amp_attack_ms |-> 1 * TicksPerSecond,
    amp_envelope_level |-> 1 * TicksPerSecond,
    amp_decay_ms |-> 10 * TicksPerSecond,
    amp_sustain_level |-> 1 * TicksPerSecond,
    amp_release_ms |-> 1 * TicksPerSecond,
    filter_cut_attack_ms |-> 1 * TicksPerSecond,
    filter_cut_envelope_level |-> 0,
    filter_cut_decay_ms |-> 10 * TicksPerSecond,
    filter_cut_sustain_ms |-> 1 * TicksPerSecond,
    filter_cut_release_ms |-> 1 * TicksPerSecond,
    filter_res_attack_ms |-> 10 * TicksPerSecond,
    filter_res_envelope_level |-> 0,
    filter_res_decay_ms |-> 10 * TicksPerSecond,
    filter_res_sustain_ms |-> 1 * TicksPerSecond,
    filter_res_release_ms |-> 1 * TicksPerSecond ]

\* ---------------------------------------------------------------- envelope
EnvStates == {"Idle", "Attack", "Hold", "Decay", "Sustain", "Release"}

\* (variant) a new envelope waits in Idle for a trigger
ADSREnvelope_new_idle(attack, hold, decay, sustain, release, sample_rate, velocity) ==
  [ attack |-> attack,
    hold |-> hold,
    decay |-> decay,
    sustain |-> sustain,
    release |-> release,
    state |-> "Idle",
    time |-> 0,
    delta_time_per_sample |-> TicksPerSecond \div sample_rate,
    velocity |-> velocity,
    is_sustained |-> FALSE,
    scale |-> 1 ]

\* ADSREnvelope::new
ADSREnvelope_new(attack, hold, decay, sustain, release, sample_rate, velocity) ==
  [ attack |-> attack,
    hold |-> hold,
    decay |-> decay,
    sustain |-> sustain,
    release |-> release,
    state |-> "Attack",
    time |-> 0,
    delta_time_per_sample |-> TicksPerSecond \div sample_rate,
    velocity |-> velocity,
    is_sustained |-> FALSE,
    scale |-> 1 ]

\* ADSREnvelope::set_envelope_stage: the stage only, the time is kept
set_envelope_stage(e, stage) == [e EXCEPT !.state = stage]

\* ADSREnvelope::trigger
trigger(e) == [e EXCEPT !.state = "Attack", !.time = 0, !.is_sustained = FALSE]

\* ADSREnvelope::set_velocity
set_velocity(e, velocity) ==
  [e EXCEPT !.velocity = velocity,
            !.attack = @ * velocity,
            !.release = @ * velocity,
            !.decay = @ * velocity,
            !.sustain = @ * velocity]

\* ADSREnvelope::set_attack
set_attack(e, attack) == [e EXCEPT !.attack = attack]

\* ADSREnvelope::set_decay
set_decay(e, decay) == [e EXCEPT !.decay = decay]

\* ADSREnvelope::set_sustain
set_sustain(e, sustain) == [e EXCEPT !.sustain = sustain]

\* ADSREnvelope::set_release
set_release(e, release) == [e EXCEPT !.release = release]

\* ADSREnvelope::set_hold
set_hold(e, hold) == [e EXCEPT !.hold = hold]

\* ADSREnvelope::set_scale: the factor is stored and attack, decay, sustain and
\* release are multiplied by it
set_scale(e, envelope_levels) ==
  [e EXCEPT !.scale = envelope_levels,
            !.attack = @ * envelope_levels,
            !.decay = @ * envelope_levels,
            !.sustain = @ * envelope_levels,
            !.release = @ * envelope_levels]

\* ADSREnvelope::get_state
get_state(e) == e.state

\* (variant) the time added is not stored when the stage stays the same
advance_time_lost(e) ==
  LET t == e.time + e.delta_time_per_sample
      change == t * e.velocity
      to(s) == [e EXCEPT !.state = s, !.time = 0]
  IN  IF e.state # "Idle" /\ change >= e.release THEN to("Idle")
      ELSE IF e.state = "Attack" /\ change >= e.attack THEN to("Hold")
      ELSE IF e.state = "Hold" /\ change >= e.attack + e.hold THEN to("Decay")
      ELSE IF e.state = "Decay" /\ change >= e.attack + e.hold + e.decay
           THEN to("Sustain")
      ELSE IF e.state = "Sustain"
              /\ change >= e.attack + e.hold + e.decay + e.sustain
           THEN to("Release")
      ELSE e

\* ADSREnvelope::advance
advance(e) ==
  LET t == e.time + e.delta_time_per_sample
      change == t * e.velocity
      to(s) == [e EXCEPT !.state = s, !.time = 0]
  IN  IF e.state # "Idle" /\ change >= e.release THEN to("Idle")
      ELSE IF e.state = "Attack" /\ change >= e.attack THEN to("Hold")
      ELSE IF e.state = "Hold" /\ change >= e.attack + e.hold THEN to("Decay")
      ELSE IF e.state = "Decay" /\ change >= e.attack + e.hold + e.decay
           THEN to("Sustain")
      ELSE IF e.state = "Sustain"
              /\ change >= e.attack + e.hold + e.decay + e.sustain
           THEN to("Release")
      ELSE [e EXCEPT !.time = t]

\* time >= release / velocity in f32: with velocity 0 the quotient is +inf
\* (release > 0) or NaN (release = 0) and the comparison is false
ReachedVelocitySensitiveRelease(e) ==
  /\ e.velocity > 0
  /\ e.time * e.velocity >= e.release

\* ADSREnvelope::get_value, the envelope it leaves behind
get_value_env(e) ==
  LET to(s) == [e EXCEPT !.state = s, !.time = 0]
      m == CASE e.state = "Idle" -> e
             [] e.state = "Attack" -> IF e.time >= e.attack THEN to("Hold") ELSE e
             [] e.state = "Hold" -> IF e.time >= e.hold THEN to("Decay") ELSE e
             [] e.state = "Decay" -> IF e.time >= e.decay THEN to("Sustain") ELSE e
             [] e.state = "Sustain" -> IF ~e.is_sustained THEN to("Release") ELSE e
             [] e.state = "Release" -> IF e.time >= e.release THEN to("Idle") ELSE e
  IN  IF m.state # "Idle" /\ ReachedVelocitySensitiveRelease(m)
      THEN [m EXCEPT !.state = "Idle", !.time = 0]
      ELSE m

\* Envelope::release
Envelope_release(e) ==
  [e EXCEPT !.state = "Release", !.time = 0, !.is_sustained = FALSE]

\* ------------------------------------------------------- envelope output
\* An f32 the envelope computes is held exactly: a fraction in lowest terms,
\* an infinity (num is its sign), or NaN.
RECURSIVE Gcd(_, _)
Gcd(a, b) == IF b = 0 THEN a ELSE Gcd(b, a % b)

Abs(x) == IF x < 0 THEN -x ELSE x

Sign(x) == IF x < 0 THEN -1 ELSE IF x > 0 THEN 1 ELSE 0

NaN == [k |-> "nan", num |-> 0, den |-> 0]

Inf(sign) == [k |-> "inf", num |-> sign, den |-> 0]

\* the fraction n / d, d > 0
Fin(n, d) ==
  LET g == Gcd(Abs(n), d)
  IN  [k |-> "fin", num |-> n \div g, den |-> d \div g]

\* f32 division a / b of two numbers held in ticks, a >= 0 and b >= 0
Div(a, b) ==
  IF b > 0 THEN Fin(a, b)
  ELSE IF a = 0 THEN NaN
  ELSE Inf(1)

\* f32 product
Mul(x, y) ==
  IF x.k = "nan" \/ y.k = "nan" THEN NaN
  ELSE IF x.k = "inf" \/ y.k = "inf"
       THEN IF Sign(x.num) * Sign(y.num) = 0 THEN NaN
            ELSE Inf(Sign(x.num) * Sign(y.num))
  ELSE Fin(x.num * y.num, x.den * y.den)

\* f32 difference 1.0 - x
OneMinus(x) ==
  IF x.k = "nan" THEN NaN
  ELSE IF x.k = "inf" THEN Inf(-x.num)
  ELSE Fin(x.den - x.num, x.den)

\* f32 sum of two finite numbers
Add(x, y) == Fin(x.num * y.den + y.num * x.den, x.den * y.den)

\* the level held in ticks as a number
Level(t) == Fin(t, TicksPerSecond)

\* ADSREnvelope::previous_value
previous_value(e) ==
  CASE e.state = "Idle" -> Fin(0, 1)
    [] e.state = "Attack" -> Div(e.time, e.attack)
    [] e.state = "Hold" -> Level(e.sustain)
    [] e.state = "Decay" ->
         OneMinus(Mul(OneMinus(Level(e.sustain)), Div(e.time, e.decay)))
    [] e.state = "Sustain" -> Level(e.sustain)
    [] e.state = "Release" ->
         Mul(Level(e.sustain), OneMinus(Div(e.time, e.release)))

\* ADSREnvelope::get_value, the value it returns
get_value(e) ==
  LET to(s) == [e EXCEPT !.state = s, !.time = 0]
  IN  CASE e.state = "Idle" -> Fin(0, 1)
        [] e.state = "Attack" ->
             IF e.time >= e.attack THEN previous_value(to("Hold"))
             ELSE Div(e.time, e.attack)
        [] e.state = "Hold" ->
             IF e.time >= e.hold THEN previous_value(to("Decay"))
             ELSE previous_value(e)
        [] e.state = "Decay" ->
             IF e.time >= e.decay THEN previous_value(to("Sustain"))
             ELSE OneMinus(Mul(OneMinus(Level(e.sustain)), Div(e.time, e.decay)))
        [] e.state = "Sustain" -> Level(e.sustain)
        [] e.state = "Release" ->
             IF e.time >= e.release THEN Fin(0, 1)
             ELSE Mul(Level(e.sustain), OneMinus(Div(e.time, e.release)))

\* ------------------------------------------------------------------- voices
NoVoice == [live |-> FALSE]

IsSome(v) == v.live

LiveSlots(vs) == {s \in DOMAIN vs : IsSome(vs[s])}

\* const fn compute_fallback_voice_id(note, channel): note | channel << 16
compute_fallback_voice_id(note, channel) == note + channel * 65536

\* SubSynth::compute_fallback_voice_id(note, channel, next_voice_id)
Self_compute_fallback_voice_id(note, channel, next_voice_id) ==
  note + channel + next_voice_id

\* SubSynth::construct_envelopes
construct_envelopes(sample_rate, velocity) ==
  << ADSREnvelope_new(Params.amp_attack_ms, Params.amp_envelope_level,
                      Params.amp_decay_ms, Params.amp_sustain_level,
                      Params.amp_release_ms, sample_rate, velocity),
     ADSREnvelope_new(Params.filter_cut_attack_ms, Params.filter_cut_envelope_level,
                      Params.filter_cut_decay_ms, Params.filter_cut_sustain_ms,
                      Params.filter_cut_release_ms, sample_rate, velocity),
     ADSREnvelope_new(Params.filter_res_attack_ms, Params.filter_res_envelope_level,
                      Params.filter_res_decay_ms, Params.filter_res_sustain_ms,
                      Params.filter_res_release_ms, sample_rate, velocity) >>

\* NoteEvent::VoiceTerminated
VoiceTerminated(timing, voice_id, channel, note) ==
  [timing |-> timing, voice_id |-> voice_id, channel |-> channel, note |-> note]

\* SubSynth::get_voice_idx: the first slot holding that voice id, or None
get_voice_idx(vs, voice_id) ==
  LET hits == {s \in Slots : IsSome(vs[s]) /\ vs[s].voice_id = voice_id}
  IN  IF hits = {} THEN None
      ELSE Some(CHOOSE s \in hits : \A t \in hits : s <= t)

\* (variant) the voice created last is taken instead of the oldest
OldestSlot_newest(vs) ==
  CHOOSE s \in Slots :
    \A t \in Slots : vs[s].internal_voice_id >= vs[t].internal_voice_id

\* the slot min_by_key(internal_voice_id) returns on a full pool: the first of
\* the slots holding the smallest key
OldestSlot(vs) ==
  CHOOSE s \in Slots :
    \A t \in Slots :
      \/ vs[s].internal_voice_id < vs[t].internal_voice_id
      \/ (vs[s].internal_voice_id = vs[t].internal_voice_id /\ s <= t)

\* (variant) only the amplitude envelope is moved
StageAll_amp_only(v, stage) ==
  [v EXCEPT !.amp_envelope = set_envelope_stage(@, stage)]

\* the three envelopes of a voice forced into one stage
StageAll(v, stage) ==
  [v EXCEPT !.amp_envelope = set_envelope_stage(@, stage),
            !.filter_cut_envelope = set_envelope_stage(@, stage),
            !.filter_res_envelope = set_envelope_stage(@, stage)]

\* (variant) the new voice goes into the slot after the first free one
place_in_free_slot_next(st, new_voice, free_voice_idx) ==
  [ st EXCEPT !.voices[(free_voice_idx + 1) % NUM_VOICES] =
                StageAll(new_voice, "Attack"),
              !.slot = (free_voice_idx + 1) % NUM_VOICES ]

\* start_voice when a slot is free: the new voice goes into the first free slot
place_in_free_slot(st, new_voice, free_voice_idx) ==
  [ st EXCEPT !.voices[free_voice_idx] = StageAll(new_voice, "Attack"),
              !.slot = free_voice_idx ]

\* start_voice when the pool is full: the oldest voice is overwritten, and
\* announced as terminated unless its amplitude envelope is Idle or Release
steal_oldest_voice(st, new_voice, sample_offset) ==
  LET o == OldestSlot(st.voices)
      oldest_voice == st.voices[o]
  IN  IF get_state(oldest_voice.amp_envelope) = "Idle"
         \/ get_state(oldest_voice.amp_envelope) = "Release"
      THEN [ st EXCEPT
               !.voices[o] =
                 [StageAll(new_voice, "Attack") EXCEPT !.releasing = FALSE],
               !.slot = o ]
      ELSE [ st EXCEPT
               !.voices[o] = new_voice,
               !.sent = Append(@, VoiceTerminated(sample_offset,
                                                 Some(oldest_voice.voice_id),
                                                 oldest_voice.channel,
                                                 oldest_voice.note)),
               !.slot = o ]

\* SubSynth::start_voice, on the synth state st = [voices, next_voice_index,
\* next_internal_voice_id, sent, fatal, slot]; the result names the slot used
start_voice(st, sample_offset, voice_id, channel, note, velocity, pan, pressure, amp_envelope, filter_cut_envelope, filter_res_envelope) ==
  LET new_voice ==
        [ live |-> TRUE,
          voice_id |-> unwrap_or(voice_id, compute_fallback_voice_id(note, channel)),
          internal_voice_id |-> st.next_internal_voice_id,
          channel |-> channel,
          note |-> note,
          velocity |-> velocity,
          pan |-> pan,
          pressure |-> pressure,
          releasing |-> FALSE,
          amp_envelope |-> amp_envelope,
          voice_gain |-> None,
          filter_cut_envelope |-> filter_cut_envelope,
          filter_res_envelope |-> filter_res_envelope ]
      counted == [st EXCEPT !.next_internal_voice_id = @ + 1]
      free == {s \in Slots : ~IsSome(st.voices[s])}
  IN  IF free # {}
      THEN place_in_free_slot(counted, new_voice,
                              CHOOSE s \in free : \A t \in free : s <= t)
      ELSE steal_oldest_voice(counted, new_voice, sample_offset)

\* the NoteOn arm of SubSynth::process; a pan is held in halves, so that the
\* centre 0.5 the arm gives a new voice is 1 and the hard left 0.0 is 0
NoteOn(st, ev) ==
  LET envs == construct_envelopes(SampleRate, ev.value)
      r == start_voice(st, ev.timing, ev.voice_id, ev.channel, ev.note, ev.value,
                       1, 1, envs[1], envs[2], envs[3])
  IN  [ r EXCEPT !.voices[r.slot] =
          [@ EXCEPT !.amp_envelope = envs[1],
                    !.filter_cut_envelope = envs[2],
                    !.filter_res_envelope = envs[3],
                    !.velocity = ev.value,
                    !.pan = 1] ]

\* the condition start_release_for_voices and choke_voices test on a candidate
Matches(voice_id, channel, note, v) ==
  \/ voice_id = Some(v.voice_id)
  \/ (channel = v.channel /\ note = v.note)

\* (variant) the envelopes are released but the voice is not marked
start_release_for_voices_unmarked(st, voice_id, channel, note) ==
  [ st EXCEPT !.voices =
      [ s \in Slots |->
          IF IsSome(st.voices[s]) /\ Matches(voice_id, channel, note, st.voices[s])
          THEN StageAll(st.voices[s], "Release")
          ELSE st.voices[s] ] ]

\* SubSynth::start_release_for_voices (the NoteOff arm)
start_release_for_voices(st, voice_id, channel, note) ==
  [ st EXCEPT !.voices =
      [ s \in Slots |->
          IF IsSome(st.voices[s]) /\ Matches(voice_id, channel, note, st.voices[s])
          THEN [StageAll(st.voices[s], "Release") EXCEPT !.releasing = TRUE]
          ELSE st.voices[s] ] ]

\* SubSynth::choke_voices (the Choke arm): the slots in index order
RECURSIVE choke_from(_, _, _, _, _, _)
choke_from(st, s, sample_offset, voice_id, channel, note) ==
  IF s >= NUM_VOICES THEN st
  ELSE IF IsSome(st.voices[s]) /\ Matches(voice_id, channel, note, st.voices[s])
  THEN LET cleared ==
             [ st EXCEPT !.sent = Append(@, VoiceTerminated(sample_offset,
                                                           Some(st.voices[s].voice_id),
                                                           channel, note)),
                         !.voices[s] = NoVoice ]
       IN  IF voice_id # None THEN cleared
           ELSE choke_from(cleared, s + 1, sample_offset, voice_id, channel, note)
  ELSE choke_from(st, s + 1, sample_offset, voice_id, channel, note)

\* (variant) the matching voices are announced but stay in their slots
choke_voices_announce_only(st, sample_offset, voice_id, channel, note) ==
  [ st EXCEPT !.sent = choke_from(st, 0, sample_offset, voice_id, channel, note).sent ]

choke_voices(st, sample_offset, voice_id, channel, note) ==
  choke_from(st, 0, sample_offset, voice_id, channel, note)

\* the slot probing loop of find_or_create_voice, started at index start:
\* voices[start] is read first, then the following indices modulo NUM_VOICES,
\* until a free slot is found or the probe is back at its start
ProbeSlot(vs, start) ==
  IF start \notin Slots
  THEN [fatal |-> "index out of bounds", slot |-> start]
  ELSE LET cand == {k \in 0 .. (NUM_VOICES - 1) :
                      ~IsSome(vs[(start + k) % NUM_VOICES])}
       IN  IF cand = {}
           THEN [fatal |-> "No available slots for new voices", slot |-> start]
           ELSE [fatal |-> "none",
                 slot |-> (start + (CHOOSE k \in cand : \A j \in cand : k <= j))
                            % NUM_VOICES]

\* the test find_or_create_voice applies to a candidate
FindMatches(voice_id, channel, note, v) ==
  /\ v.voice_id = unwrap_or(voice_id, v.voice_id)
  /\ v.channel = channel
  /\ v.note = note

\* SubSynth::find_or_create_voice; the result names the slot of the voice
find_or_create_voice(st, voice_id, channel, note, pan, pressure) ==
  LET hits == {s \in Slots : IsSome(st.voices[s])
                               /\ FindMatches(voice_id, channel, note, st.voices[s])}
  IN  IF hits # {}
      THEN [st EXCEPT !.slot = CHOOSE s \in hits : \A t \in hits : s <= t]
      ELSE LET nvi == IF voice_id = None THEN st.next_voice_index + 1
                      ELSE st.next_voice_index
               new_voice_id ==
                 unwrap_or(voice_id, Self_compute_fallback_voice_id(note, channel, nvi))
               envs == construct_envelopes(TicksPerSecond, 1)
               new_voice ==
                 [ live |-> TRUE,
                   voice_id |-> new_voice_id,
                   channel |-> channel,
                   note |-> note,
                   internal_voice_id |-> st.next_internal_voice_id,
                   velocity |-> 0,
                   releasing |-> FALSE,
                   amp_envelope |-> trigger(envs[1]),
                   voice_gain |-> None,
                   filter_cut_envelope |-> trigger(envs[2]),
                   filter_res_envelope |-> trigger(envs[3]),
                   pan |-> pan,
                   pressure |-> pressure ]
               probe == ProbeSlot(st.voices, nvi)
           IN  IF probe.fatal # "none"
               THEN [st EXCEPT !.next_voice_index = nvi, !.fatal = probe.fatal]
               ELSE [st EXCEPT !.voices[probe.slot] = new_voice,
                               !.next_voice_index = probe.slot,
                               !.slot = probe.slot]

\* SubSynth::handle_poly_event
handle_poly_event(st, timing, voice_id, channel, note, gain, pan, pressure, amp_envelope) ==
  LET r == find_or_create_voice(st, voice_id, channel, note, pan, pressure)
  IN  IF r.fatal # "none" THEN r
      ELSE [ r EXCEPT !.voices[r.slot] =
               [@ EXCEPT !.velocity = gain,
                         !.amp_envelope = set_velocity(amp_envelope, gain)] ]

\* the PolyPressure arm of SubSynth::process
PolyPressure(st, ev) ==
  LET voice_idx == get_voice_idx(st.voices, unwrap_or(ev.voice_id, 0))
  IN  IF voice_idx = None THEN st
      ELSE LET voice_inner == st.voices[voice_idx[1]]
           IN  handle_poly_event(st, ev.timing, ev.voice_id, ev.channel, ev.note,
                                 0, voice_inner.pan, ev.value,
                                 voice_inner.amp_envelope)

\* the PolyPan arm of SubSynth::process
PolyPan(st, ev) ==
  LET voice_idx == get_voice_idx(st.voices, unwrap_or(ev.voice_id, 0))
  IN  IF voice_idx = None THEN st
      ELSE LET voice_inner == st.voices[voice_idx[1]]
           IN  handle_poly_event(st, ev.timing, ev.voice_id, ev.channel, ev.note,
                                 voice_inner.velocity, ev.value,
                                 voice_inner.pressure,
                                 voice_inner.amp_envelope)

\* the PolyVolume arm of SubSynth::process: the gain of the event, the pan and
\* the pressure of the voice get_voice_idx finds
PolyVolume(st, ev) ==
  LET voice_idx == get_voice_idx(st.voices, unwrap_or(ev.voice_id, 0))
  IN  IF voice_idx = None THEN st
      ELSE LET voice_inner == st.voices[voice_idx[1]]
           IN  handle_poly_event(st, ev.timing, ev.voice_id, ev.channel, ev.note,
                                 ev.value, voice_inner.pan,
                                 voice_inner.pressure,
                                 voice_inner.amp_envelope)

\* the PolyTuning arm of SubSynth::process: the velocity, the pan and the
\* pressure of the voice get_voice_idx finds; the tuning of the event goes to
\* a field of the Voice that is not held here
PolyTuning(st, ev) ==
  LET voice_idx == get_voice_idx(st.voices, unwrap_or(ev.voice_id, 0))
  IN  IF voice_idx = None THEN st
      ELSE LET voice_inner == st.voices[voice_idx[1]]
           IN  handle_poly_event(st, ev.timing, ev.voice_id, ev.channel, ev.note,
                                 voice_inner.velocity, voice_inner.pan,
                                 voice_inner.pressure,
                                 voice_inner.amp_envelope)

\* the PolyVibrato arm of SubSynth::process: as the PolyTuning arm, the
\* vibrato of the event going to a field of the Voice that is not held here
PolyVibrato(st, ev) ==
  LET voice_idx == get_voice_idx(st.voices, unwrap_or(ev.voice_id, 0))
  IN  IF voice_idx = None THEN st
      ELSE LET voice_inner == st.voices[voice_idx[1]]
           IN  handle_poly_event(st, ev.timing, ev.voice_id, ev.channel, ev.note,
                                 voice_inner.velocity, voice_inner.pan,
                                 voice_inner.pressure,
                                 voice_inner.amp_envelope)

\* Plugin::reset: every slot is emptied and the internal numbering starts
\* again; next_voice_index stays (the random source it seeds anew is not part
\* of the synth state held here)
reset(st) ==
  [ st EXCEPT !.voices = [s \in Slots |-> NoVoice],
              !.next_internal_voice_id = 0 ]

\* ------------------------------------------------- polyphonic modulation
GAIN_POLY_MOD_ID == 0

\* The gain parameter and its smoother belong to the parameter library. A
\* normalized value of the gain is 0 (the lowest of its range) or 1 (the
\* highest). A plain value of the gain is held by its level in decibels, an
\* exact fraction: util::db_to_gain(x) is held as x. A smoother is
\* [current, target, steps_left], current and target being plain values.
\* the unmodulated normalized value of the gain parameter: that of its
\* default util::db_to_gain(-36.0), the lowest of the range
GainUnmodulated == 0

Clamp01(x) == IF x < 0 THEN 0 ELSE IF x > 1 THEN 1 ELSE x

\* params.gain.preview_plain(normalized), on the range FloatRange::Linear
\* { min: util::db_to_gain(-36.0), max: util::db_to_gain(0.0) } and for the
\* normalized values 0 and 1
preview_plain(normalized) ==
  IF Clamp01(normalized) = 0 THEN Fin(-36, 1) ELSE Fin(0, 1)

\* params.gain.preview_modulated(normalized_offset)
preview_modulated(normalized_offset) ==
  preview_plain(Clamp01(GainUnmodulated + normalized_offset))

\* params.gain.smoothed.clone(): the global smoother, at rest on the global value
GainSmoothed ==
  [ current |-> preview_plain(GainUnmodulated),
    target |-> preview_plain(GainUnmodulated),
    steps_left |-> 0 ]

\* the steps of a 5 ms smoothing at that sample rate
num_steps(sample_rate) == (sample_rate * 5 + 500) \div 1000

\* Smoother::reset
Smoother_reset(smoother, value) ==
  [current |-> value, target |-> value, steps_left |-> 0]

\* Smoother::set_target
Smoother_set_target(smoother, sample_rate, target) ==
  [ smoother EXCEPT !.target = target,
                    !.steps_left = num_steps(sample_rate) ]

\* Smoother::next_block(block, block_len) of the parameter library, for the
\* style the gain is built with, SmoothingStyle::Logarithmic(5.0): the
\* smoother takes block_len steps, or the steps it has left when those are
\* fewer, each step multiplying the value by (target / current) to the power
\* 1 / steps_left, which adds (target - current) / steps_left to the level in
\* decibels held here; block[k] is the value after k + 1 steps, the target
\* once the steps have run out. A smoother with no steps left fills the block
\* with its target and stays as it is.
Smoother_next_block(smoother, block_len) ==
  LET left == smoother.steps_left
      after(j) ==
        IF j >= left THEN smoother.target
        ELSE Add(Mul(smoother.current, Fin(left - j, left)),
                 Mul(smoother.target, Fin(j, left)))
  IN  [ smoother |->
          IF left = 0 THEN smoother
          ELSE [ smoother EXCEPT
                   !.current = after(block_len),
                   !.steps_left = IF left > block_len THEN left - block_len ELSE 0 ],
        block |-> [k \in 0 .. (block_len - 1) |-> after(k + 1)] ]

\* (variant) a voice counts as new only when created after the first voice
\* of the sub-block
CreatedSinceBlockStart_strict(v, id_start) == v.internal_voice_id > id_start

\* voice.internal_voice_id >= this_sample_internal_voice_id_start
CreatedSinceBlockStart(v, id_start) == v.internal_voice_id >= id_start

\* nih_debug_assert_failure!: the diagnostic is logged and the program goes on
nih_debug_assert_failure(st) == st

\* the GAIN_POLY_MOD_ID arm of the PolyModulation arm, for the voice found
modulate_gain(st, voice_idx, ev, id_start) ==
  LET voice == st.voices[voice_idx[1]]
      target_plain_value == preview_modulated(ev.normalized_offset)
      inserted == IF voice.voice_gain = None
                  THEN << ev.normalized_offset, GainSmoothed >>
                  ELSE voice.voice_gain[1]
      smoother ==
        IF CreatedSinceBlockStart(voice, id_start)
        THEN Smoother_reset(inserted[2], target_plain_value)
        ELSE Smoother_set_target(inserted[2], SampleRate, target_plain_value)
  IN  [ st EXCEPT
          !.voices[voice_idx[1]].voice_gain = Some(<< inserted[1], smoother >>),
          !.slot = voice_idx[1] ]

\* (variant) every poly modulation id is taken for the gain's
PolyModulation_any_id(st, ev, id_start) ==
  LET voice_idx == get_voice_idx(st.voices, ev.voice_id)
  IN  IF voice_idx = None THEN st
      ELSE modulate_gain(st, voice_idx, ev, id_start)

\* the PolyModulation arm of SubSynth::process; id_start is
\* this_sample_internal_voice_id_start
PolyModulation(st, ev, id_start) ==
  LET voice_idx == get_voice_idx(st.voices, ev.voice_id)
  IN  IF voice_idx = None THEN st
      ELSE IF ev.poly_modulation_id # GAIN_POLY_MOD_ID
      THEN nih_debug_assert_failure([st EXCEPT !.slot = voice_idx[1]])
      ELSE modulate_gain(st, voice_idx, ev, id_start)

\* the MonoAutomation arm of SubSynth::process: every live voice in turn
MonoAutomation(st, ev) ==
  [ st EXCEPT !.voices =
      [ s \in Slots |->
          LET voice == st.voices[s]
          IN  IF ~IsSome(voice) THEN voice
              ELSE IF ev.poly_modulation_id # GAIN_POLY_MOD_ID
              THEN nih_debug_assert_failure(voice)
              ELSE IF voice.voice_gain = None THEN voice
              ELSE LET normalized_offset == voice.voice_gain[1][1]
                       smoother == voice.voice_gain[1][2]
                       target_plain_value ==
                         preview_plain(ev.normalized_value + normalized_offset)
                   IN  [ voice EXCEPT !.voice_gain =
                           Some(<< normalized_offset,
                                   Smoother_set_target(smoother, SampleRate,
                                                       target_plain_value) >>) ] ] ]

\* ---------------------------------------------------------------- rendering
\* what one pass of the per-sample loop body does to a voice in a sub-block
\* of block_len samples: the gain smoother of a voice with polyphonic
\* modulation fills a whole block, and the three envelopes move on one sample
render_sample(v, block_len) ==
  [v EXCEPT !.voice_gain =
              IF @ = None THEN None
              ELSE Some(<< @[1][1], Smoother_next_block(@[1][2], block_len).smoother >>),
            !.amp_envelope = get_value_env(advance(@)),
            !.filter_cut_envelope = get_value_env(advance(@)),
            !.filter_res_envelope = get_value_env(advance(@))]

\* n passes of the loop body on a voice in a sub-block of block_len samples
\* (the passes of the first half, then those of the second half)
RECURSIVE render_samples(_, _, _)
render_samples(v, n, block_len) ==
  IF n <= 0 THEN v
  ELSE IF n = 1 THEN render_sample(v, block_len)
  ELSE LET half == render_samples(v, n \div 2, block_len)
       IN  IF IsSome(half) THEN render_samples(half, n - (n \div 2), block_len)
           ELSE half

\* the sample loop of a sub-block of n samples, as far as one voice goes
render_voice(v, n) == render_samples(v, n, n)

\* the content an output sample had before the call
PriorTerm == [slot |-> -1, internal_voice_id |-> -1]

\* an output sample as the host hands it over: its prior content, never zeroed
PriorSample == [sum |-> << PriorTerm >>, zeroed |-> 0]

\* the term a voice adds into an output sample
VoiceTerm(s, v) == [slot |-> s, internal_voice_id |-> v.internal_voice_id]

\* (variant) the sub-block is not zeroed
fill_skipped(buf, from, to) == buf

\* output[ch][block_start..block_end].fill(0.0); sample index i is buf[i + 1]
fill(buf, from, to) ==
  [i \in DOMAIN buf |->
     IF (i - 1) >= from /\ (i - 1) < to
     THEN [sum |-> << >>, zeroed |-> buf[i].zeroed + 1]
     ELSE buf[i]]

\* the terms the voices loop adds into one sample, in slot order
RECURSIVE terms_from(_, _)
terms_from(vs, s) ==
  IF s >= NUM_VOICES THEN << >>
  ELSE IF IsSome(vs[s]) THEN << VoiceTerm(s, vs[s]) >> \o terms_from(vs, s + 1)
  ELSE terms_from(vs, s + 1)

\* output[ch][sample_idx] += ..., for the samples of the sub-block
accumulate(buf, from, to, vs) ==
  [i \in DOMAIN buf |->
     IF (i - 1) >= from /\ (i - 1) < to
     THEN [buf[i] EXCEPT !.sum = @ \o terms_from(vs, 0)]
     ELSE buf[i]]

\* the loop that terminates the voices whose release has ended
RECURSIVE reap_from(_, _, _)
reap_from(st, s, block_end_) ==
  IF s >= NUM_VOICES THEN st
  ELSE LET v == st.voices[s]
       IN  IF IsSome(v) /\ v.releasing /\ get_state(v.amp_envelope) = "Idle"
           THEN reap_from([ st EXCEPT
                              !.sent = Append(@, VoiceTerminated(block_end_,
                                                                Some(v.voice_id),
                                                                v.channel, v.note)),
                              !.voices[s] = NoVoice ],
                          s + 1, block_end_)
           ELSE reap_from(st, s + 1, block_end_)

\* (variant) the reap stamps its notifications with the start of the sub-block
render_block_reap_at_start(st, from, to) ==
  reap_from([ st EXCEPT !.voices =
                [s \in Slots |-> IF IsSome(st.voices[s])
                                 THEN render_voice(st.voices[s], to - from)
                                 ELSE NoVoice] ],
            0, from)

\* one sub-block [from, to) on the voices: sample loop, then reap
render_block(st, from, to) ==
  reap_from([ st EXCEPT !.voices =
                [s \in Slots |-> IF IsSome(st.voices[s])
                                 THEN render_voice(st.voices[s], to - from)
                                 ELSE NoVoice] ],
            0, to)

\* ------------------------------------------------------------------- inputs
Event(kind, timing, voice_id, channel, note, value) ==
  [kind |-> kind, timing |-> timing, voice_id |-> voice_id, channel |-> channel,
   note |-> note, value |-> value]

\* events of the voice-manager inputs: NoteOn, NoteOff, Choke and PolyPressure
\* on every identity (voice id, channel, note), at sample 0; a MidiCC; PolyPan
\* events to the hard left (pan 0), for the first note of the pools and for a
\* voice id that another note carries; PolyVolume, PolyTuning and PolyVibrato
\* events with voice id 0, the id of the first voice of the pools, for a note
\* no voice plays, and a PolyVolume of gain 0 for the first note of the pools
VoiceEvents ==
  { Event(k, 0, id[1], id[2], id[3], 1) :
      k \in {"NoteOn", "NoteOff", "Choke", "PolyPressure"},
      id \in { << None, 0, 0 >>, << None, 1, 0 >>, << None, 0, 16 >>,
               << Some(0), 0, 16 >>, << Some(3), 0, 0 >> } }
  \cup { Event("MidiCC", 0, None, 0, 0, 1) }
  \cup { Event("PolyPan", 0, None, 0, 0, 0), Event("PolyPan", 0, Some(0), 0, 16, 0) }
  \cup { Event(k, 0, Some(0), 0, 16, 1) :
           k \in {"PolyVolume", "PolyTuning", "PolyVibrato"} }
  \cup { Event("PolyVolume", 0, Some(0), 0, 0, 0) }

\* NoteEvent::PolyModulation
PolyModulationEvent(timing, voice_id, poly_modulation_id, normalized_offset) ==
  [kind |-> "PolyModulation", timing |-> timing, voice_id |-> voice_id,
   poly_modulation_id |-> poly_modulation_id,
   normalized_offset |-> normalized_offset]

\* NoteEvent::MonoAutomation
MonoAutomationEvent(timing, poly_modulation_id, normalized_value) ==
  [kind |-> "MonoAutomation", timing |-> timing,
   poly_modulation_id |-> poly_modulation_id,
   normalized_value |-> normalized_value]

\* events of the scheduler inputs: a new note and the release of an old one,
\* at each timing (0, 10, 64); a PolyPressure for a note no voice plays, at the
\* start of the buffer; and modulations of the gain in the second sub-block:
\* of the voice a NoteOn for that note starts (fallback voice id 16) and of
\* the voice the PolyPressure creates (fallback voice id 16 + 0 + 1,
\* next_voice_index being 0)
SchedEvents ==
  { Event("NoteOn", t, None, 0, 16, 1) : t \in {0, 10, 64} }
  \cup { Event("NoteOff", t, None, 0, 0, 1) : t \in {0, 10, 64} }
  \cup { Event("PolyPressure", 0, None, 0, 16, 1) }
  \cup { PolyModulationEvent(64, id, GAIN_POLY_MOD_ID, 1) : id \in {16, 17} }

SeqsUpTo(S, n) == UNION { [1 .. k -> S] : k \in 0 .. n }

\* the host supplies events in non-decreasing order of timing
Sorted(q) == \A i \in 1 .. (Len(q) - 1) : q[i].timing <= q[i + 1].timing

\* a render call: its length (one sample for the voice-manager inputs; none,
\* one sample, a whole block or more for the scheduler inputs) and its event
\* queue; with the voice-manager events go polyphonic modulations of the gain
\* and of an unknown parameter, for the voice ids the other events give their
\* voices, and automations of the gain and of an unknown parameter
Inputs ==
  { [num_samples |-> 1, events |-> q] :
      q \in SeqsUpTo(VoiceEvents
                       \cup { PolyModulationEvent(0, id, m, 1) :
                                id \in {0, 3}, m \in {GAIN_POLY_MOD_ID, 1} }
                       \cup { MonoAutomationEvent(0, m, 0) :
                                m \in {GAIN_POLY_MOD_ID, 1} },
                     MaxEvents) }
  \cup { [num_samples |-> n, events |-> q] :
           n \in {0, 1, 64, 70},
           q \in {r \in SeqsUpTo(SchedEvents, MaxEvents) : Sorted(r)} }

\* ------------------------------------------------------------ initial pools
\* SubSynth::default
Default ==
  [ voices |-> [s \in Slots |-> NoVoice],
    next_voice_index |-> 0,
    next_internal_voice_id |-> 0,
    sent |-> << >>,
    fatal |-> "none",
    slot |-> -1 ]

RECURSIVE note_ons(_, _, _)
note_ons(st, i, k) ==
  IF i >= k THEN st
  ELSE note_ons(NoteOn(st, Event("NoteOn", 0, None, 0, i, 1)), i + 1, k)

\* the synth after an earlier one-sample render call that delivered k NoteOns,
\* notes 0 .. k-1 on channel 0, without voice ids
WarmUp(k) == render_block(note_ons(Default, 0, k), 0, 1)

\* ------------------------------------------------------------ state machine
\* ---------------------------------------------------------------- waveform
\* A phase is held in steps of 1/PhaseDen of a cycle, a value of
\* rand::random::<f32>() in steps of 1/RandDen, a sample as an exact fraction.
PhaseDen == 720

RandDen == 4

Waveforms ==
  { "Sine", "Triangle", "Sawtooth", "Square", "Pulse", "Noise", "DrumKick",
    "DrumSnare", "DrumTomHigh", "DrumTomMid", "DrumTomLow", "DrumHatClosed",
    "DrumHatOpen", "DrumHatPedal", "DrumClap", "DrumRim" }

\* (turns * 2.0 * PI).sin() for an angle of a / PhaseDen turns, to three
\* decimals
Sin(a) ==
  CASE a % PhaseDen = 0 -> Fin(0, 1)
    [] a % PhaseDen = 1 -> Fin(9, 1000)
    [] a % PhaseDen = 3 -> Fin(26, 1000)
    [] a % PhaseDen = 60 -> Fin(1, 2)
    [] a % PhaseDen = 180 -> Fin(1, 1)
    [] a % PhaseDen = 360 -> Fin(0, 1)
    [] a % PhaseDen = 420 -> Fin(-1, 2)
    [] a % PhaseDen = 540 -> Fin(-1, 1)
    [] a % PhaseDen = 719 -> Fin(-9, 1000)

\* rand::random::<f32>() * 2.0 - 1.0 for the draw r
Noise(r) == Fin(2 * r - RandDen, RandDen)

\* generate_waveform; rand holds the values rand::random returns, in the order
\* of the calls
generate_waveform(waveform, phase, rand) ==
  CASE waveform = "Sine" -> Sin(phase % PhaseDen)
    [] waveform = "Triangle" ->
         Fin(2 * Abs(2 * phase - PhaseDen) - PhaseDen, PhaseDen)
    [] waveform = "Sawtooth" -> Fin(PhaseDen - 2 * phase, PhaseDen)
    [] waveform = "Square" ->
         IF 2 * phase < PhaseDen THEN Fin(1, 1) ELSE Fin(-1, 1)
    [] waveform = "Pulse" ->
         IF 4 * phase < PhaseDen \/ 4 * phase >= 3 * PhaseDen
         THEN Fin(1, 1) ELSE Fin(-1, 1)
    [] waveform = "Noise" -> Noise(rand[1])
    [] waveform = "DrumKick" -> Sin(phase % PhaseDen)
    [] waveform = "DrumSnare" ->
         LET noise == Noise(rand[1])
             tone == Sin((phase % PhaseDen) * 180)
         IN  Add(Mul(noise, Fin(7, 10)), Mul(tone, Fin(3, 10)))
    [] waveform = "DrumTomHigh" ->
         LET tone == Sin(phase % PhaseDen)
             noise == Mul(Noise(rand[1]), Fin(15, 100))
         IN  Add(Mul(tone, Fin(85, 100)), noise)
    [] waveform = "DrumTomMid" ->
         LET tone == Sin(phase % PhaseDen)
             noise == Mul(Noise(rand[1]), Fin(18, 100))
         IN  Add(Mul(tone, Fin(82, 100)), noise)
    [] waveform = "DrumTomLow" ->
         LET tone == Sin(phase % PhaseDen)
             noise == Mul(Noise(rand[1]), Fin(2, 10))
         IN  Add(Mul(tone, Fin(8, 10)), noise)
    [] waveform = "DrumHatClosed" ->
         LET noise == Noise(rand[1])
             noise2 == Noise(rand[2])
         IN  Mul(Add(noise, Mul(noise2, Fin(7, 10))), Fin(6, 10))
    [] waveform = "DrumHatOpen" ->
         LET noise == Noise(rand[1])
             noise2 == Noise(rand[2])
             noise3 == Noise(rand[3])
         IN  Mul(Add(Add(noise, Mul(noise2, Fin(8, 10))),
                     Mul(noise3, Fin(4, 10))),
                 Fin(5, 10))
    [] waveform = "DrumHatPedal" -> Mul(Noise(rand[1]), Fin(7, 10))
    [] waveform = "DrumClap" ->
         LET noise == Noise(rand[1])
             noise2 == Noise(rand[2])
         IN  Add(Mul(noise, Fin(6, 10)), Mul(noise2, Fin(4, 10)))
    [] waveform = "DrumRim" ->
         LET noise == Noise(rand[1])
             click == IF 100 * phase < PhaseDen THEN Fin(1, 1) ELSE Fin(0, 1)
         IN  Add(Mul(noise, Fin(4, 10)), Mul(click, Fin(6, 10)))

\* a call of generate_waveform that is still to be made
WaveCall(waveform, phase, rand) ==
  [ waveform |-> waveform, phase |-> phase, rand |-> rand,
    returned |-> FALSE, sample |-> Fin(0, 1) ]

WaveAtRest == WaveCall("Sine", 0, << 0, 0, 0 >>)

\* ------------------------------------------------------------ notch filter
\* filter.rs has an envelope of its own, of four stages. Its durations and its
\* clock are held in ticks, its sustain level and its values as fractions.
\* filter::ADSREnvelope::new
Filter_ADSREnvelope_new(attack, decay, sustain, release, sample_rate, velocity) ==
  [ attack |-> attack,
    decay |-> decay,
    sustain |-> sustain,
    release |-> release,
    state |-> "Attack",
    time |-> 0,
    sample_rate |-> sample_rate,
    delta_time_per_sample |-> TicksPerSecond \div sample_rate,
    velocity |-> velocity ]

\* the test "the envelope has completed" that get_value makes twice
Filter_completed(e, velocity_sensitive_release) ==
  IF e.state # "Idle" /\ e.time >= velocity_sensitive_release
  THEN [e EXCEPT !.state = "Idle", !.time = 0]
  ELSE e

\* filter::ADSREnvelope::get_value: << the envelope it leaves, the value >>
Filter_get_value(env0) ==
  LET velocity_sensitive_attack == env0.attack \div env0.velocity
      velocity_sensitive_decay == env0.decay \div env0.velocity
      velocity_sensitive_release == env0.release \div env0.velocity
      e == Filter_completed([env0 EXCEPT !.time = @ + env0.delta_time_per_sample],
                            velocity_sensitive_release)
      r == CASE e.state = "Idle" -> << e, Fin(0, 1) >>
             [] e.state = "Attack" ->
                  IF e.time >= velocity_sensitive_attack
                  THEN << [e EXCEPT !.state = "Decay", !.time = 0], Fin(1, 1) >>
                  ELSE << e, Fin(e.time, velocity_sensitive_attack) >>
             [] e.state = "Decay" ->
                  IF e.time >= velocity_sensitive_decay
                  THEN << [e EXCEPT !.state = "Sustain", !.time = 0], e.sustain >>
                  ELSE << e, OneMinus(Mul(OneMinus(e.sustain),
                                          Fin(e.time, velocity_sensitive_decay))) >>
             [] e.state = "Sustain" -> << e, e.sustain >>
             [] e.state = "Release" ->
                  IF e.time >= velocity_sensitive_release
                  THEN << [e EXCEPT !.state = "Idle", !.time = 0], Fin(0, 1) >>
                  ELSE << e, Mul(e.sustain,
                                 OneMinus(Fin(e.time, velocity_sensitive_release))) >>
  IN  << Filter_completed(r[1], velocity_sensitive_release), r[2] >>

\* NotchFilter::calculate_coefficients: a0, a1, a2, b1, b2 are functions of
\* cutoff, bandwidth and sample_rate, and are held as the triple they were
\* computed from; computed counts the calls, calls those of process and
\* requests the other calls made on the filter from outside
calculate_coefficients(f) ==
  [ f EXCEPT !.coefficients = << f.cutoff, f.bandwidth, f.sample_rate >>,
             !.computed = @ + 1 ]

\* NotchFilter::new
NotchFilter_new(cutoff, cutoff_envelope, bandwidth, bandwidth_envelope, sample_rate) ==
  calculate_coefficients(
    [ cutoff |-> cutoff,
      bandwidth |-> bandwidth,
      cutoff_envelope |-> cutoff_envelope,
      bandwidth_envelope |-> bandwidth_envelope,
      sample_rate |-> sample_rate,
      coefficients |-> << Fin(0, 1), Fin(0, 1), sample_rate >>,
      computed |-> 0,
      calls |-> 0,
      requests |-> 0 ])

\* NotchFilter::set_sample_rate, the method of the type: the coefficients are
\* computed again
NotchFilter_set_sample_rate(f, sample_rate) ==
  calculate_coefficients([f EXCEPT !.sample_rate = sample_rate])

\* Filter::set_sample_rate for NotchFilter, the method of the trait: the
\* coefficients stay as they were computed
Filter_set_sample_rate(f, sample_rate) == [f EXCEPT !.sample_rate = sample_rate]

\* the test `cutoff != self.cutoff || bandwidth != self.bandwidth` of
\* NotchFilter::process and what it guards
Notch_modulate(f, cutoff, bandwidth) ==
  IF cutoff # f.cutoff \/ bandwidth # f.bandwidth
  THEN calculate_coefficients([f EXCEPT !.cutoff = cutoff,
                                        !.bandwidth = bandwidth])
  ELSE f

\* NotchFilter::process, as far as the parameters and the coefficients go
NotchFilter_process(f) ==
  LET c == Filter_get_value(f.cutoff_envelope)
      b == Filter_get_value(f.bandwidth_envelope)
      cutoff == Mul(f.cutoff, c[2])
      bandwidth == Mul(f.bandwidth, b[2])
  IN  Notch_modulate([ f EXCEPT !.cutoff_envelope = c[1],
                                !.bandwidth_envelope = b[1],
                                !.calls = @ + 1 ],
                     cutoff, bandwidth)

\* the filter the synth gives a voice, with envelopes at rest on 1
NotchAtRest ==
  NotchFilter_new(Fin(1000, 1),
                  Filter_ADSREnvelope_new(0, 0, Fin(1, 1), 0, 1, 1),
                  Fin(1, 1),
                  Filter_ADSREnvelope_new(0, 0, Fin(1, 1), 0, 1, 1),
                  1)

\* ------------------------------------------- the sample loop on one voice
\* filter::DCBlocker::new
DCBlocker_new == [x1 |-> Fin(0, 1), y1 |-> Fin(0, 1), r |-> Fin(199, 200)]

\* DCBlocker::process: << the blocker it leaves, the output >>
DCBlocker_process(b, input) ==
  LET output == Add(Add(input, Mul(Fin(-1, 1), b.x1)), Mul(b.r, b.y1))
  IN  << [b EXCEPT !.x1 = input, !.y1 = output], output >>

\* HighpassFilter::new: the feedback memory of a new filter. Of the memory
\* only prev_input is held, the input of the last process call.
HighpassFilter_new == [prev_input |-> Fin(0, 1)]

\* (variant) the new Voice takes over the filter of the slot's last occupant
start_voice_filters_kept(previous) == previous

\* the filter of the Voice start_voice builds: a new instance, whatever the
\* slot held
start_voice_filters(previous) == HighpassFilter_new

\* values of the global parameters the sample loop reads
ChainParams == [waveform : {"Sine", "Saw"}, filter_type : {"None", "Highpass"}]

\* one voice at the start of a sub-block of block_len samples, its gain
\* smoother (voice_gain, None without polyphonic modulation) with ramp steps
\* to go; value_idx counts the samples rendered, read is the parameter values
\* the last sample used, gain_used the smoothed value it was scaled by, dc_in
\* and dc_out what went into and came out of the DC blocker, left_over the
\* filter memory of the slot's last occupant
Chain(block_len, voice_gain, params) ==
  [ block_len |-> block_len,
    value_idx |-> 0,
    voice_gain |-> voice_gain,
    ramp_at_start |-> voice_gain,
    gain_used |-> None,
    highpass_filter |-> HighpassFilter_new,
    left_over |-> HighpassFilter_new,
    dc_in |-> Fin(0, 1),
    dc_out |-> Fin(0, 1),
    params |-> params,
    read |-> params,
    started |-> FALSE ]

\* the body of the sample loop for one voice: generated_sample is what
\* generate_waveform returned and processed_sample the sample after filter,
\* correction and amplitude
render_chain_sample(c, generated_sample, processed_sample) ==
  LET smoothed == Smoother_next_block(c.voice_gain[1], c.block_len)
      dc_blocked_sample == DCBlocker_process(DCBlocker_new, processed_sample)[2]
  IN  [ c EXCEPT
          !.voice_gain = IF @ = None THEN None ELSE Some(smoothed.smoother),
          !.gain_used = IF c.voice_gain = None THEN None
                        ELSE Some(smoothed.block[c.value_idx]),
          !.read = c.params,
          !.highpass_filter =
            IF c.params.filter_type = "Highpass"
            THEN [@ EXCEPT !.prev_input = generated_sample]
            ELSE @,
          !.dc_in = processed_sample,
          !.dc_out = dc_blocked_sample,
          !.value_idx = @ + 1 ]

VARIABLES
  voices,                  \* SubSynth.voices
  next_voice_index,        \* SubSynth.next_voice_index
  next_internal_voice_id,  \* SubSynth.next_internal_voice_id
  pc,                      \* position in process: idle, events, done, panic
  num_samples,             \* buffer.samples()
  block_start,
  block_end,
  next_event,              \* the event peeked from the context, or None
  events,                  \* the events the context still holds
  this_sample_internal_voice_id_start,
  output,                  \* output[ch][i + 1]: sample i of channel ch
  sent,                    \* events passed to context.send_event in this call
  fatal,                   \* the panic that ended the call, or "none"
  supplied,                \* log: the event queue of the call
  applied,                 \* log: the events applied, with the state they met
  last_op,                 \* log: the step taken last
  context,                 \* the ProcessContext the calls of process are given
  env,                     \* an ADSREnvelope driven on its own
  env_value,               \* the value its last get_value returned
  env_log,                 \* log: the calls made on env
  wave,                    \* a call of generate_waveform and what it returned
  notch,                   \* a NotchFilter driven on its own
  chain                    \* a voice in the sample loop of a sub-block

vars ==
  << voices, next_voice_index, next_internal_voice_id, pc, num_samples,
     block_start, block_end, next_event, events,
     this_sample_internal_voice_id_start, output, sent, fatal, supplied,
     applied, last_op, context, env, env_value, env_log, wave, notch, chain >>

\* the envelope driven on its own, and the synth
envelope_vars == << env, env_value, env_log >>

\* the signal functions driven on their own
dsp_vars == << wave, notch, chain >>

synth_vars ==
  << voices, next_voice_index, next_internal_voice_id, pc, num_samples,
     block_start, block_end, next_event, events,
     this_sample_internal_voice_id_start, output, sent, fatal, supplied,
     applied, last_op, context >>

\* the log of an envelope on which nothing was called yet
NoCalls ==
  [ op |-> "new", from |-> "Attack", phase |-> "ready", released |-> FALSE,
    released_from |-> "Idle", released_level |-> Fin(0, 1), since |-> 0,
    samples |-> 0, triggers |-> 0 ]

\* the pool the run starts from: empty, one slot free, or full
Init ==
  \E k \in {0, NUM_VOICES - 1, NUM_VOICES} :
    /\ voices = WarmUp(k).voices
    /\ next_voice_index = WarmUp(k).next_voice_index
    /\ next_internal_voice_id = WarmUp(k).next_internal_voice_id
    /\ pc = "idle"
    /\ num_samples = 0
    /\ block_start = 0
    /\ block_end = 0
    /\ next_event = None
    /\ events = << >>
    /\ this_sample_internal_voice_id_start = 0
    /\ output = [ch \in 0 .. 1 |-> << >>]
    /\ sent = << >>
    /\ fatal = "none"
    /\ supplied = << >>
    /\ applied = << >>
    /\ last_op = "init"
    /\ context \in IF k = 0 THEN {"Host", "Standalone"} ELSE {"Host"}
    /\ env = ADSREnvelope_new(0, 0, 0, 0, 0, 1, 0)
    /\ env_value = Fin(0, 1)
    /\ env_log = NoCalls
    /\ wave = WaveAtRest
    /\ notch = NotchAtRest
    /\ chain = Chain(0, None, [waveform |-> "Sine", filter_type |-> "None"])

\* ProcessContext::next_event of the context a plugin host's wrapper gives to
\* process, on the queue q it holds: << the event or None, the rest >>
ProcessContext_next_event(q) ==
  IF q = << >> THEN << None, << >> >> ELSE << Some(Head(q)), Tail(q) >>

\* WrapperProcessContext::next_event of the standalone wrapper: the failure is
\* logged, nothing is taken from a queue and the answer is None
WrapperProcessContext_next_event(q) == << None, q >>

\* (variant) the loop asks twice and keeps the first answer
context_next_event_twice(c, q) ==
  LET first == IF c = "Standalone" THEN WrapperProcessContext_next_event(q)
               ELSE ProcessContext_next_event(q)
      second == IF c = "Standalone"
                THEN WrapperProcessContext_next_event(first[2])
                ELSE ProcessContext_next_event(first[2])
  IN  << first[1], second[2] >>

\* context.next_event() of process, on the context c it was given and the
\* queue q that context holds: << the event or None, the rest >>
context_next_event(c, q) ==
  IF c = "Standalone" THEN WrapperProcessContext_next_event(q)
  ELSE ProcessContext_next_event(q)

\* guard of the first arm of the events loop: the event is applied
ArmApplies(ev, bs, be) == ev.timing < be

\* guard of the second arm of the events loop: the block is cut at the event
ArmCuts(ev, bs, be) == ev.timing < be

\* (variant) the body runs once before the condition is tested
LoopContinues_body_first(start, n) == start <= n

\* while block_start < num_samples
LoopContinues(start, n) == start < n

\* the call starts: the buffer and the queue are taken over, the first event is
\* peeked; without samples the block loop is skipped and the call returns.
\* The context of the standalone wrapper holds no queue.
BeginProcess ==
  /\ pc = "idle"
  /\ \E inp \in Inputs :
       /\ context = "Standalone" => inp.events = << >>
       /\ num_samples' = inp.num_samples
       /\ supplied' = inp.events
       /\ next_event' = context_next_event(context, inp.events)[1]
       /\ events' = context_next_event(context, inp.events)[2]
       /\ block_start' = 0
       /\ block_end' = Min2(MAX_BLOCK_SIZE, inp.num_samples)
       /\ output' = [ch \in 0 .. 1 |-> [i \in 1 .. inp.num_samples |-> PriorSample]]
       /\ pc' = IF LoopContinues(0, inp.num_samples) THEN "events" ELSE "done"
  /\ this_sample_internal_voice_id_start' = next_internal_voice_id
  /\ sent' = << >>
  /\ applied' = << >>
  /\ last_op' = "begin"
  /\ UNCHANGED << voices, next_voice_index, next_internal_voice_id, fatal,
                  context >>
  /\ UNCHANGED << envelope_vars, dsp_vars >>

\* the synth state the handlers work on
Synth ==
  [ voices |-> voices,
    next_voice_index |-> next_voice_index,
    next_internal_voice_id |-> next_internal_voice_id,
    sent |-> sent,
    fatal |-> "none",
    slot |-> -1 ]

\* the host resets the plugin before the call
Reset ==
  /\ pc = "idle"
  /\ voices' = reset(Synth).voices
  /\ next_internal_voice_id' = reset(Synth).next_internal_voice_id
  /\ last_op' = "reset"
  /\ UNCHANGED << next_voice_index, pc, num_samples, block_start, block_end,
                  next_event, events, this_sample_internal_voice_id_start,
                  output, sent, fatal, supplied, applied, context >>
  /\ UNCHANGED << envelope_vars, dsp_vars >>

\* ---- the time of an envelope as the f32 sum the program keeps
\* An f32 above zero is the pair << m, e >>, the number m * 2^e with
\* 2^23 <= m < 2^24; zero is << 0, 0 >>.
\* m units and num / den of a unit, rounded to the nearest whole number of
\* units, to the even one of two equally near, with the exponent e of a unit
f32_round(m, num, den, e) ==
  LET up == 2 * num > den \/ (2 * num = den /\ m % 2 = 1)
      r == IF up THEN m + 1 ELSE m
  IN  IF r = 2^24 THEN << 2^23, e + 1 >> ELSE << r, e >>

\* the quotient q with remainder r of a division by d, q * 2^e so far, is
\* taken to 24 bits
RECURSIVE f32_quotient(_, _, _, _)
f32_quotient(q, r, e, d) ==
  IF q >= 2^23 THEN f32_round(q, r, d, e)
  ELSE f32_quotient(2 * q + (IF 2 * r >= d THEN 1 ELSE 0), (2 * r) % d, e - 1, d)

\* the f32 n as f32 / d as f32 of two whole numbers, n >= 0 and d > 0: the
\* f32 of a time of n ticks (d the ticks of a second), and 1.0 / sample_rate
f32_div(n, d) == IF n = 0 THEN << 0, 0 >> ELSE f32_quotient(n \div d, n % d, 0, d)

\* x >= y on f32
f32_ge(x, y) ==
  \/ y[1] = 0
  \/ x[1] # 0 /\ (x[2] > y[2] \/ (x[2] = y[2] /\ x[1] >= y[1]))

\* the f32 sum x + y
f32_add(x, y) ==
  IF x[1] = 0 THEN y
  ELSE IF y[1] = 0 THEN x
  ELSE LET big == IF x[2] >= y[2] THEN x ELSE y
           small == IF x[2] >= y[2] THEN y ELSE x
           s == big[2] - small[2]
       IN  IF s > 25 THEN big
           ELSE LET whole == big[1] + small[1] \div 2^s
                    rest == small[1] % 2^s
                IN  IF whole < 2^24 THEN f32_round(whole, rest, 2^s, big[2])
                    ELSE f32_round(whole \div 2, (whole % 2) * 2^s + rest,
                                   2^(s + 1), big[2] + 1)

\* self.time += self.delta_time_per_sample (envelope.rs, advance), sample
\* after sample from the time t held after n samples, until the sum has come
\* to release: the number of the sample that finds it there, 0 when the sum
\* stops growing before. While the sum keeps its exponent every sample adds
\* the same whole number of units to it, and those samples are taken at once.
RECURSIVE f32_samples_until(_, _, _, _)
f32_samples_until(t, n, delta, release) ==
  LET next == f32_add(t, delta)
      s == t[2] - delta[2]
      tie == s >= 1 /\ 2 * (delta[1] % 2^s) = 2^s
      even_steps == t[1] # 0 /\ next[2] = t[2] /\ s >= 0
                    /\ ~(tie /\ t[1] % 2 = 1)
      inc == next[1] - t[1]
      k == (2^24 - 1 - t[1]) \div inc
  IN  IF f32_ge(next, release) THEN n + 1
      ELSE IF next = t THEN 0
      ELSE IF ~even_steps THEN f32_samples_until(next, n + 1, delta, release)
      ELSE IF release[2] = t[2] THEN n + (release[1] - t[1] + inc - 1) \div inc
      ELSE f32_samples_until(<< t[1] + k * inc, t[2] >>, n + k, delta, release)

\* the samples a voice in Release still renders before advance or get_value
\* finds the release time of its amplitude envelope run out, for the
\* velocities 0 and 1, and 0 when they never do: advance compares
\* time * velocity and get_value the time itself with release, the time
\* being the f32 sum of the sample periods
SamplesToIdle(e) ==
  f32_samples_until(f32_div(e.time, TicksPerSecond), 0,
                    f32_div(e.delta_time_per_sample, TicksPerSecond),
                    f32_div(e.release, TicksPerSecond))

\* log: the voices the test of start_release_for_voices selects for a NoteOff,
\* as the handler leaves them
Released(ev, after) ==
  { [ slot |-> s,
      voice_id |-> after[s].voice_id,
      channel |-> after[s].channel,
      note |-> after[s].note,
      needs |-> SamplesToIdle(after[s].amp_envelope) ] :
      s \in { t \in LiveSlots(after) :
                Matches(ev.voice_id, ev.channel, ev.note, after[t]) } }

\* one pass of the events loop through its first arm: the peeked event is
\* handled (r is the synth its handler leaves) and the next one is peeked
Apply(kind, r) ==
  /\ voices' = r.voices
  /\ next_voice_index' = r.next_voice_index
  /\ next_internal_voice_id' = r.next_internal_voice_id
  /\ sent' = r.sent
  /\ fatal' = r.fatal
  /\ IF r.fatal = "none"
     THEN /\ pc' = "events"
          /\ next_event' = context_next_event(context, events)[1]
          /\ events' = context_next_event(context, events)[2]
          /\ applied' = Append(applied,
                               [ ev |-> next_event[1],
                                 rendered |-> block_start,
                                 live_before |-> Cardinality(LiveSlots(voices)),
                                 next_id_before |-> next_internal_voice_id,
                                 sent_before |-> Len(sent),
                                 slot |-> r.slot,
                                 created |-> /\ r.slot \in Slots
                                             /\ \/ kind = "NoteOn"
                                                \/ ~IsSome(voices[r.slot]),
                                 targets |-> IF kind = "NoteOff"
                                             THEN Released(next_event[1], r.voices)
                                             ELSE {} ])
          /\ last_op' = "event"
     ELSE /\ pc' = "panic"
          /\ last_op' = "panic"
          /\ UNCHANGED << next_event, events, applied >>
  /\ UNCHANGED << num_samples, block_start, block_end,
                  this_sample_internal_voice_id_start, output, supplied,
                  context >>
  /\ UNCHANGED << envelope_vars, dsp_vars >>

Pending(kinds) ==
  /\ pc = "events"
  /\ next_event # None
  /\ ArmApplies(next_event[1], block_start, block_end)
  /\ next_event[1].kind \in kinds

ApplyNoteOn ==
  /\ Pending({"NoteOn"})
  /\ Apply("NoteOn", NoteOn(Synth, next_event[1]))

ApplyNoteOff ==
  /\ Pending({"NoteOff"})
  /\ Apply("NoteOff",
           start_release_for_voices(Synth, next_event[1].voice_id,
                                    next_event[1].channel, next_event[1].note))

ApplyChoke ==
  /\ Pending({"Choke"})
  /\ Apply("Choke",
           choke_voices(Synth, next_event[1].timing, next_event[1].voice_id,
                        next_event[1].channel, next_event[1].note))

ApplyPolyPressure ==
  /\ Pending({"PolyPressure"})
  /\ Apply("PolyPressure", PolyPressure(Synth, next_event[1]))

ApplyPolyPan ==
  /\ Pending({"PolyPan"})
  /\ Apply("PolyPan", PolyPan(Synth, next_event[1]))

ApplyPolyVolume ==
  /\ Pending({"PolyVolume"})
  /\ Apply("PolyVolume", PolyVolume(Synth, next_event[1]))

ApplyPolyTuning ==
  /\ Pending({"PolyTuning"})
  /\ Apply("PolyTuning", PolyTuning(Synth, next_event[1]))

ApplyPolyVibrato ==
  /\ Pending({"PolyVibrato"})
  /\ Apply("PolyVibrato", PolyVibrato(Synth, next_event[1]))

ApplyPolyModulation ==
  /\ Pending({"PolyModulation"})
  /\ Apply("PolyModulation",
           PolyModulation(Synth, next_event[1],
                          this_sample_internal_voice_id_start))

ApplyMonoAutomation ==
  /\ Pending({"MonoAutomation"})
  /\ Apply("MonoAutomation", MonoAutomation(Synth, next_event[1]))

\* any other event: the arm `_ => ()`
ApplyOther ==
  /\ Pending({"MidiCC"})
  /\ Apply("MidiCC", Synth)

\* the end of the sub-block once the events loop has broken out
BlockEndAfterEvents ==
  IF next_event # None /\ ArmCuts(next_event[1], block_start, block_end)
  THEN next_event[1].timing
  ELSE block_end

\* the events loop breaks out; the sub-block is zeroed and rendered, the
\* released voices are reaped, and the loop goes on to the next sub-block or
\* the call returns
RenderBlock ==
  /\ pc = "events"
  /\ ~(next_event # None /\ ArmApplies(next_event[1], block_start, block_end))
  /\ LET be == BlockEndAfterEvents
         r == render_block(Synth, block_start, be)
     IN  /\ output' = [ch \in 0 .. 1 |->
                         accumulate(fill(output[ch], block_start, be),
                                    block_start, be, voices)]
         /\ voices' = r.voices
         /\ sent' = r.sent
         /\ block_start' = be
         /\ block_end' = Min2(be + MAX_BLOCK_SIZE, num_samples)
         /\ pc' = IF LoopContinues(be, num_samples) THEN "events" ELSE "done"
  /\ this_sample_internal_voice_id_start' = next_internal_voice_id
  /\ last_op' = "render"
  /\ UNCHANGED << next_voice_index, next_internal_voice_id, num_samples,
                  next_event, events, fatal, supplied, applied, context >>
  /\ UNCHANGED << envelope_vars, dsp_vars >>

Next ==
  \/ BeginProcess
  \/ Reset
  \/ ApplyNoteOn
  \/ ApplyNoteOff
  \/ ApplyChoke
  \/ ApplyPolyPressure
  \/ ApplyPolyPan
  \/ ApplyPolyVolume
  \/ ApplyPolyTuning
  \/ ApplyPolyVibrato
  \/ ApplyPolyModulation
  \/ ApplyMonoAutomation
  \/ ApplyOther
  \/ RenderBlock

Spec == Init /\ [][Next]_vars

\* ------------------------------------------------- one envelope on its own
\* stage durations of the envelopes tried, in seconds
MaxStage == 2

StageTicks == {n * TicksPerSecond : n \in 0 .. MaxStage}

\* sustain levels tried: 0, one half, 1
Levels == {0, TicksPerSecond \div 2, TicksPerSecond}

Velocities == {0, 1}

\* calls of trigger() on one envelope
MaxTriggers == 1

\* the time an envelope is followed for
MaxEnvTime == (MaxStage + 1) * TicksPerSecond

\* a new envelope of any durations, sustain level, sample rate (1 or 2 Hz) and
\* velocity; the synth is the default one and stays as it is
EnvInit ==
  /\ \E a \in StageTicks, h \in StageTicks, dc \in StageTicks, su \in Levels,
        r \in StageTicks, rate \in {1, 2}, v \in Velocities :
       env = ADSREnvelope_new(a, h, dc, su, r, rate, v)
  /\ env_value = Fin(0, 1)
  /\ env_log = NoCalls
  /\ wave = WaveAtRest
  /\ notch = NotchAtRest
  /\ chain = Chain(0, None, [waveform |-> "Sine", filter_type |-> "None"])
  /\ voices = Default.voices
  /\ next_voice_index = Default.next_voice_index
  /\ next_internal_voice_id = Default.next_internal_voice_id
  /\ pc = "idle"
  /\ num_samples = 0
  /\ block_start = 0
  /\ block_end = 0
  /\ next_event = None
  /\ events = << >>
  /\ this_sample_internal_voice_id_start = 0
  /\ output = [ch \in 0 .. 1 |-> << >>]
  /\ sent = << >>
  /\ fatal = "none"
  /\ supplied = << >>
  /\ applied = << >>
  /\ last_op = "init"
  /\ context = "Host"

\* a call that changes the stage from outside, between two samples: a trigger
\* (MaxTriggers of them at most), or one release request after the latest
\* trigger
EnvRequest(op, e) ==
  /\ env_log.phase = "ready"
  /\ IF op = "trigger" THEN env_log.triggers < MaxTriggers
     ELSE ~env_log.released
  /\ env' = e
  /\ env_log' = [ env_log EXCEPT
                    !.op = op,
                    !.from = env.state,
                    !.released = (op # "trigger"),
                    !.released_from = IF op # "trigger" THEN env.state ELSE "Idle",
                    !.released_level =
                      IF op = "trigger" \/ env_log.samples = 0
                      THEN Fin(0, 1)
                      ELSE env_value,
                    !.since = 0,
                    !.triggers = IF op = "trigger" THEN @ + 1 ELSE @,
                    !.samples = IF op = "trigger" THEN 0 ELSE @ ]
  /\ UNCHANGED << env_value, synth_vars, dsp_vars >>

\* trigger()
EnvTrigger == EnvRequest("trigger", trigger(env))

\* set_envelope_stage(Release), what a NoteOff does to the envelopes of a voice
EnvReleaseRequest == EnvRequest("set_envelope_stage", set_envelope_stage(env, "Release"))

\* release()
EnvRelease == EnvRequest("release", Envelope_release(env))

\* a call that sets a parameter from outside, on a new envelope: before its
\* first sample, trigger or release request, a set_scale with another factor
\* than 1 being the last of these calls. The durations and the sustain level
\* stay within the ones tried.
EnvSet(op, e) ==
  /\ env_log.phase = "ready"
  /\ env_log.samples = 0
  /\ env_log.triggers = 0
  /\ ~env_log.released
  /\ env.scale = 1
  /\ \A d \in {e.attack, e.hold, e.decay, e.release} : d <= MaxStage * TicksPerSecond
  /\ e.sustain <= TicksPerSecond
  /\ env' = e
  /\ env_log' = [env_log EXCEPT !.op = op, !.from = env.state]
  /\ UNCHANGED << env_value, synth_vars, dsp_vars >>

\* set_attack(attack)
EnvSetAttack == \E x \in StageTicks : EnvSet("set_attack", set_attack(env, x))

\* set_decay(decay)
EnvSetDecay == \E x \in StageTicks : EnvSet("set_decay", set_decay(env, x))

\* set_sustain(sustain)
EnvSetSustain == \E x \in Levels : EnvSet("set_sustain", set_sustain(env, x))

\* set_release(release)
EnvSetRelease == \E x \in StageTicks : EnvSet("set_release", set_release(env, x))

\* set_hold(hold)
EnvSetHold == \E x \in StageTicks : EnvSet("set_hold", set_hold(env, x))

\* set_scale(envelope_levels), with the factors 0 and 2
EnvSetScale == \E k \in {0, 2} : EnvSet("set_scale", set_scale(env, k))

\* set_velocity(velocity)
EnvSetVelocity == \E v \in Velocities : EnvSet("set_velocity", set_velocity(env, v))

\* the first half of a sample: advance()
EnvAdvance ==
  /\ env_log.phase = "ready"
  /\ env.time + env.delta_time_per_sample <= MaxEnvTime
  /\ env' = advance(env)
  /\ env_log' = [env_log EXCEPT !.op = "advance", !.from = env.state,
                                !.phase = "advanced"]
  /\ UNCHANGED << env_value, synth_vars, dsp_vars >>

\* the second half of a sample: get_value()
EnvGetValue ==
  /\ env_log.phase = "advanced"
  /\ env' = get_value_env(env)
  /\ env_value' = get_value(env)
  /\ env_log' = [env_log EXCEPT !.op = "get_value", !.from = env.state,
                                !.phase = "ready",
                                !.since = IF env_log.released THEN @ + 1 ELSE @,
                                !.samples = @ + 1]
  /\ UNCHANGED << synth_vars, dsp_vars >>

EnvSpec ==
  EnvInit /\ [][ \/ EnvTrigger
                 \/ EnvReleaseRequest
                 \/ EnvRelease
                 \/ EnvSetAttack
                 \/ EnvSetDecay
                 \/ EnvSetSustain
                 \/ EnvSetRelease
                 \/ EnvSetHold
                 \/ EnvSetScale
                 \/ EnvSetVelocity
                 \/ EnvAdvance
                 \/ EnvGetValue ]_vars

\* ------------------------------------------- generate_waveform on its own
\* the rest of the program is the default one and stays as it is
RestAtDefault ==
  /\ env = ADSREnvelope_new(0, 0, 0, 0, 0, 1, 0)
  /\ env_value = Fin(0, 1)
  /\ env_log = NoCalls
  /\ voices = Default.voices
  /\ next_voice_index = Default.next_voice_index
  /\ next_internal_voice_id = Default.next_internal_voice_id
  /\ pc = "idle"
  /\ num_samples = 0
  /\ block_start = 0
  /\ block_end = 0
  /\ next_event = None
  /\ events = << >>
  /\ this_sample_internal_voice_id_start = 0
  /\ output = [ch \in 0 .. 1 |-> << >>]
  /\ sent = << >>
  /\ fatal = "none"
  /\ supplied = << >>
  /\ applied = << >>
  /\ last_op = "init"
  /\ context = "Host"

\* a call of any waveform at one of the phases tried, in [0, 1), with any
\* values rand::random::<f32>() returns, in [0, 1)
WaveInit ==
  /\ \E w \in Waveforms, p \in {0, 1, 3, 60, 180, 360, 420, 540, 719},
        r \in [1 .. 3 -> 0 .. (RandDen - 1)] :
       wave = WaveCall(w, p, r)
  /\ notch = NotchAtRest
  /\ chain = Chain(0, None, [waveform |-> "Sine", filter_type |-> "None"])
  /\ RestAtDefault

GenerateWaveform ==
  /\ ~wave.returned
  /\ wave' = [ wave EXCEPT
                 !.returned = TRUE,
                 !.sample = generate_waveform(wave.waveform, wave.phase, wave.rand) ]
  /\ UNCHANGED << synth_vars, envelope_vars, notch, chain >>

WaveSpec == WaveInit /\ [][GenerateWaveform]_vars

\* ------------------------------------------------ a NotchFilter on its own
\* process calls made on the filter
MaxNotchCalls == 4

\* stage durations of the filter's envelopes, in ticks
\* (no stage, or 2 s), release durations (none, or 16 s, which outlasts the
\* calls) and sustain levels of the envelopes tried
NotchEnvelopes ==
  { Filter_ADSREnvelope_new(a, dc, su, r, 1, v) :
      a \in {0, 2 * TicksPerSecond}, dc \in {0, 2 * TicksPerSecond},
      su \in {Fin(0, 1), Fin(1, 2), Fin(1, 1)},
      r \in {0, 16 * TicksPerSecond}, v \in {1, 2} }

\* calls made on the filter from outside other than process
MaxNotchRequests == 1

\* a new filter of cutoff 1000 Hz and bandwidth 1 with any two envelopes, at a
\* sample rate of 1 Hz
NotchInit ==
  /\ \E ce \in NotchEnvelopes, be \in NotchEnvelopes :
       notch = NotchFilter_new(Fin(1000, 1), ce, Fin(1, 1), be, 1)
  /\ wave = WaveAtRest
  /\ chain = Chain(0, None, [waveform |-> "Sine", filter_type |-> "None"])
  /\ RestAtDefault

NotchProcess ==
  /\ notch.calls < MaxNotchCalls
  /\ notch' = NotchFilter_process(notch)
  /\ UNCHANGED << synth_vars, envelope_vars, wave, chain >>

\* set_sample_rate called on the NotchFilter itself, with 1 Hz or 2 Hz
NotchSetSampleRate ==
  /\ notch.requests < MaxNotchRequests
  /\ \E sample_rate \in {1, 2} :
       notch' = [ NotchFilter_set_sample_rate(notch, sample_rate)
                    EXCEPT !.requests = @ + 1 ]
  /\ UNCHANGED << synth_vars, envelope_vars, wave, chain >>

\* set_sample_rate called through the Filter trait, with 1 Hz or 2 Hz
FilterSetSampleRate ==
  /\ notch.requests < MaxNotchRequests
  /\ \E sample_rate \in {1, 2} :
       notch' = [ Filter_set_sample_rate(notch, sample_rate)
                    EXCEPT !.requests = @ + 1 ]
  /\ UNCHANGED << synth_vars, envelope_vars, wave, chain >>

\* calculate_coefficients called from outside
NotchCalculateCoefficients ==
  /\ notch.requests < MaxNotchRequests
  /\ notch' = [calculate_coefficients(notch) EXCEPT !.requests = @ + 1]
  /\ UNCHANGED << synth_vars, envelope_vars, wave, chain >>

NotchSpec ==
  NotchInit /\ [][ \/ NotchProcess
                   \/ NotchSetSampleRate
                   \/ FilterSetSampleRate
                   \/ NotchCalculateCoefficients ]_vars

\* ---------------------------------------- the sample loop on its own
\* samples of a sub-block
MaxBlockLen == 3

\* steps a gain smoother has to go at the start of a sub-block
MaxRamp == 4

\* a voice with polyphonic gain modulation at the start of a sub-block, any
\* parameter values set
ChainInit ==
  /\ \E n \in 1 .. MaxBlockLen, ramp \in 0 .. MaxRamp, p \in ChainParams :
       chain = Chain(n, Some([ current |-> preview_plain(0),
                                target |-> preview_plain(1),
                                steps_left |-> ramp ]), p)
  /\ wave = WaveAtRest
  /\ notch = NotchAtRest
  /\ RestAtDefault

\* one pass of the sample loop over the voice
ChainSample ==
  /\ chain.value_idx < chain.block_len
  /\ \E generated_sample \in {Fin(-1, 1), Fin(0, 1), Fin(1, 2)},
        processed_sample \in {Fin(-1, 2), Fin(0, 1), Fin(1, 1)} :
       chain' = render_chain_sample(chain, generated_sample, processed_sample)
  /\ UNCHANGED << synth_vars, envelope_vars, wave, notch >>

\* the editor thread stores a new plain value in a parameter, at any moment
EditorSetsParameter ==
  /\ \E p \in ChainParams :
       /\ p # chain.params
       /\ chain' = [chain EXCEPT !.params = p]
  /\ UNCHANGED << synth_vars, envelope_vars, wave, notch >>

\* after the sub-block a NoteOn takes the slot: start_voice builds the Voice
\* that replaces the one rendered so far, and the next sub-block begins
ChainStartVoice ==
  /\ chain.value_idx = chain.block_len
  /\ ~chain.started
  /\ \E n \in 1 .. MaxBlockLen :
       chain' = [ Chain(n, None, chain.params) EXCEPT
                    !.highpass_filter = start_voice_filters(chain.highpass_filter),
                    !.left_over = chain.highpass_filter,
                    !.read = chain.read,
                    !.started = TRUE ]
  /\ UNCHANGED << synth_vars, envelope_vars, wave, notch >>

ChainSpec ==
  ChainInit /\ [][ChainSample \/ EditorSetsParameter \/ ChainStartVoice]_vars

\* ------------------------------------------------------------------ helpers
\* the terms of an output sample, as a set
Terms(cell) == {cell.sum[j] : j \in 1 .. Len(cell.sum)}

\* the last event applied, with the state it met
LastApplied == applied[Len(applied)]

\* the state is the one an event of that kind has just left
JustApplied(kind) ==
  /\ last_op = "event"
  /\ applied # << >>
  /\ LastApplied.ev.kind = kind

\* the step applies the pending event, which is of that kind
AppliesStep(kind) ==
  /\ Pending({kind})
  /\ Len(applied') = Len(applied) + 1

\* the matching rule as the specification words it
SpecMatches(ev, v) ==
  \/ (ev.voice_id # None /\ v.voice_id = ev.voice_id[1])
  \/ (ev.voice_id = None /\ v.channel = ev.channel /\ v.note = ev.note)

\* ------------------------------------------------------------------- claims

\* C1: an event with timestamp t is applied when exactly t samples have been
\* rendered (after sample t-1, before sample t), and the voice a NoteOn at
\* sample t starts adds nothing to the samples [0, t).
C1_SampleAccurateTiming ==
  \A k \in 1 .. Len(applied) :
    /\ applied[k].rendered = applied[k].ev.timing
    /\ applied[k].ev.kind = "NoteOn" =>
         \A i \in 1 .. Min2(applied[k].ev.timing, num_samples) :
           [slot |-> applied[k].slot,
            internal_voice_id |-> applied[k].next_id_before]
             \notin Terms(output[0][i])

\* C2: the events applied are the events of the host queue, each once and in
\* queue order; an event with timestamp t is applied before sample t is
\* rendered, so that when sample t is rendered every event with timestamp t
\* (or less) has been applied; and when the call returns every event with
\* timestamp < N has been applied.
C2_EventsOnceInOrder ==
  /\ Len(applied) <= Len(supplied)
  /\ \A k \in 1 .. Len(applied) :
       /\ applied[k].ev = supplied[k]
       /\ applied[k].rendered <= applied[k].ev.timing
  /\ pc \in {"events", "done"} =>
       \A k \in 1 .. Len(supplied) :
         supplied[k].timing < block_start => k <= Len(applied)
  /\ pc = "done" =>
       \A k \in 1 .. Len(supplied) :
         supplied[k].timing < num_samples => k <= Len(applied)

\* C2 witness: a call has returned after applying two different events that
\* share a timestamp inside the buffer.
C2_Witness ==
  /\ pc = "done"
  /\ Len(applied) = 2
  /\ applied[1].ev.timing = applied[2].ev.timing
  /\ applied[1].ev.timing > 0
  /\ applied[1].ev # applied[2].ev

\* C3: every sample is zeroed at most once, a sample that has been rendered
\* was zeroed exactly once and holds only terms added by voices (each slot at
\* most once, nothing of its prior content), and when the call returns this is
\* so for every sample of [0, N) on both channels.
C3_OutputOverwritten ==
  \A ch \in 0 .. 1 :
    /\ DOMAIN output[ch] = 1 .. (IF pc = "idle" THEN 0 ELSE num_samples)
    /\ \A i \in DOMAIN output[ch] :
         LET cell == output[ch][i]
         IN  /\ cell.zeroed <= 1
             /\ cell.zeroed = 0 => cell = PriorSample
             /\ cell.zeroed = 1 =>
                  /\ PriorTerm \notin Terms(cell)
                  /\ \A t \in Terms(cell) : t.slot \in Slots
                  /\ \A a, b \in 1 .. Len(cell.sum) :
                       cell.sum[a].slot = cell.sum[b].slot => a = b
             /\ (i - 1 < block_start \/ pc = "done") => cell.zeroed = 1
             /\ cell.zeroed = 1 => i - 1 < block_start

\* C3 witness: a call of two sub-blocks has returned and voices were added into
\* the first and into the last sample.
C3_Witness ==
  /\ pc = "done"
  /\ num_samples > MAX_BLOCK_SIZE
  /\ output[0][1].sum # << >>
  /\ output[1][num_samples].sum # << >>

\* C4: every step leaves the pool with the NUM_VOICES slots it was built with,
\* at most NUM_VOICES of them holding a live voice and at most one more than
\* before; a NoteOn never asks for a slot beyond them: applied on a pool of n
\* live voices it leaves n + 1 live voices while a slot is free and NUM_VOICES
\* on a full pool, and does not end the call with a panic.
C4_PoolBounded ==
  [][ /\ DOMAIN voices' = Slots
      /\ Cardinality(LiveSlots(voices')) <= NUM_VOICES
      /\ Cardinality(LiveSlots(voices')) <= Cardinality(LiveSlots(voices)) + 1
      /\ Pending({"NoteOn"}) =>
            /\ fatal' = "none"
            /\ Cardinality(LiveSlots(voices'))
                 = Min2(Cardinality(LiveSlots(voices)) + 1, NUM_VOICES) ]_vars

\* C4 witness: a NoteOn has just been applied on a full pool; the pool is still
\* full, the voice of the NoteOn is in it and the call goes on.
C4_Witness ==
  /\ JustApplied("NoteOn")
  /\ LastApplied.live_before = NUM_VOICES
  /\ Cardinality(LiveSlots(voices)) = NUM_VOICES
  /\ voices[LastApplied.slot].note = LastApplied.ev.note
  /\ voices[LastApplied.slot].internal_voice_id = LastApplied.next_id_before
  /\ fatal = "none"

\* C5: right after a NoteOn is applied some live voice carries its channel and
\* note (and its voice id when it has one), with the three envelopes in Attack
\* and releasing = FALSE.
C5_NoteOnAlwaysStartsVoice ==
  JustApplied("NoteOn") =>
    \E s \in Slots :
      /\ IsSome(voices[s])
      /\ voices[s].channel = LastApplied.ev.channel
      /\ voices[s].note = LastApplied.ev.note
      /\ LastApplied.ev.voice_id # None =>
           voices[s].voice_id = LastApplied.ev.voice_id[1]
      /\ voices[s].amp_envelope.state = "Attack"
      /\ voices[s].filter_cut_envelope.state = "Attack"
      /\ voices[s].filter_res_envelope.state = "Attack"
      /\ voices[s].releasing = FALSE

\* C5 witness: a NoteOn with an explicit voice id has just been applied on a
\* full pool.
C5_Witness ==
  /\ JustApplied("NoteOn")
  /\ LastApplied.live_before = NUM_VOICES
  /\ LastApplied.ev.voice_id # None
  /\ \E s \in Slots :
       /\ IsSome(voices[s])
       /\ voices[s].voice_id = LastApplied.ev.voice_id[1]
       /\ voices[s].note = LastApplied.ev.note
       /\ voices[s].amp_envelope.state = "Attack"

\* C6: no event drives the voice manager into a panic: find_or_create_voice
\* neither indexes the pool outside [0, NUM_VOICES) nor reaches 'No available
\* slots for new voices'.
C6_NoPanic ==
  /\ fatal = "none"
  /\ pc # "panic"

\* C7: a NoteOn on a full pool overwrites the oldest voice (smallest internal
\* sequence number); it emits exactly one VoiceTerminated, carrying that
\* voice's id, channel and note, when that voice's amplitude envelope is
\* neither Idle nor Release, and emits nothing otherwise.
C7_StealNotifiesIffSounding ==
  [][ ( /\ AppliesStep("NoteOn")
        /\ Cardinality(LiveSlots(voices)) = NUM_VOICES )
      =>
      \E o \in Slots :
        /\ \A t \in Slots :
             \/ voices[o].internal_voice_id < voices[t].internal_voice_id
             \/ ( /\ voices[o].internal_voice_id = voices[t].internal_voice_id
                  /\ o <= t )
        /\ voices'[o].internal_voice_id = next_internal_voice_id
        /\ voices'[o].note = next_event[1].note
        /\ IF voices[o].amp_envelope.state \notin {"Idle", "Release"}
           THEN sent' = Append(sent,
                               VoiceTerminated(next_event[1].timing,
                                               Some(voices[o].voice_id),
                                               voices[o].channel,
                                               voices[o].note))
           ELSE sent' = sent
    ]_vars

\* C7 witness: the pool holds the voices of 16 NoteOns of the notes 0..15, none
\* released; a 17th NoteOn, of note 16, has just been applied and exactly one
\* VoiceTerminated was emitted, for the first note.
C7_Witness ==
  /\ JustApplied("NoteOn")
  /\ Len(applied) = 1
  /\ LastApplied.live_before = NUM_VOICES
  /\ LastApplied.ev.note = 16
  /\ LastApplied.slot = 0
  /\ sent = << VoiceTerminated(LastApplied.ev.timing, Some(0), 0, 0) >>

\* C8: a NoteOff or a Choke touches only the voices that match under the rule
\* "explicit voice id: the voice's id equals it; no voice id: channel and note
\* both equal": every other live voice is left as it was.
C8_MatchingRule ==
  [][ (AppliesStep("NoteOff") \/ AppliesStep("Choke"))
      =>
      \A s \in Slots :
        (IsSome(voices[s]) /\ ~SpecMatches(next_event[1], voices[s]))
          => voices'[s] = voices[s]
    ]_vars

\* C9: right after a NoteOff is applied every live voice that matches it is
\* releasing with its three envelopes in Release, no slot was cleared and
\* nothing was announced.
C9_NoteOffReleasesMatching ==
  JustApplied("NoteOff") =>
    /\ \A s \in Slots :
         (IsSome(voices[s]) /\ SpecMatches(LastApplied.ev, voices[s])) =>
           /\ voices[s].releasing
           /\ voices[s].amp_envelope.state = "Release"
           /\ voices[s].filter_cut_envelope.state = "Release"
           /\ voices[s].filter_res_envelope.state = "Release"
    /\ Cardinality(LiveSlots(voices)) = LastApplied.live_before
    /\ Len(sent) = LastApplied.sent_before

\* C9 witness: a NoteOff has just been applied and a live voice matches it.
C9_Witness ==
  /\ JustApplied("NoteOff")
  /\ \E s \in Slots :
       /\ IsSome(voices[s])
       /\ SpecMatches(LastApplied.ev, voices[s])
       /\ voices[s].releasing
       /\ voices[s].filter_res_envelope.state = "Release"

\* C10: right after a Choke is applied no live voice matches it any more, one
\* VoiceTerminated was emitted per slot cleared, and a Choke with an explicit
\* voice id cleared at most one slot.
C10_ChokeClearsMatching ==
  JustApplied("Choke") =>
    /\ \A s \in Slots :
         IsSome(voices[s]) => ~SpecMatches(LastApplied.ev, voices[s])
    /\ Len(sent) - LastApplied.sent_before
         = LastApplied.live_before - Cardinality(LiveSlots(voices))
    /\ LastApplied.ev.voice_id # None =>
         LastApplied.live_before - Cardinality(LiveSlots(voices)) <= 1

\* the voices as the sample loop of the sub-block a step renders leaves them,
\* before the reap
RenderedBeforeReap ==
  [s \in Slots |-> IF IsSome(voices[s])
                   THEN render_voice(voices[s], block_start' - block_start)
                   ELSE NoVoice]

\* the events sent by a step
NewlySent == SubSeq(sent', Len(sent) + 1, Len(sent'))

\* C11: a step that renders a sub-block clears exactly the voices that end the
\* sample loop releasing with an Idle amplitude envelope, leaves the other
\* voices as the sample loop left them, and sends nothing but one
\* VoiceTerminated per cleared voice, carrying the end of the sub-block as
\* timing and the voice's id, channel and note.
C11_ReapClearsReleasedIdle ==
  [][ (pc = "events" /\ last_op' = "render") =>
        LET pre == RenderedBeforeReap
            due == {s \in Slots : /\ IsSome(pre[s])
                                  /\ pre[s].releasing
                                  /\ pre[s].amp_envelope.state = "Idle"}
            note_of(s) == VoiceTerminated(block_start', Some(pre[s].voice_id),
                                          pre[s].channel, pre[s].note)
        IN  /\ \A s \in due :
                 /\ voices'[s] = NoVoice
                 /\ Cardinality({j \in 1 .. Len(NewlySent) :
                                    NewlySent[j] = note_of(s)})
                      = Cardinality({t \in due : note_of(t) = note_of(s)})
            /\ \A s \in Slots \ due : voices'[s] = pre[s]
            /\ Len(NewlySent) = Cardinality(due) ]_vars

\* C11 witness: a sub-block has just been rendered, its reap sent a
\* VoiceTerminated carrying the sub-block's end and freed a slot, and a voice
\* whose amplitude envelope is Idle but which is not releasing is still live.
C11_Witness ==
  /\ last_op = "render"
  /\ sent # << >>
  /\ sent[Len(sent)].timing = block_start
  /\ Cardinality(LiveSlots(voices)) < NUM_VOICES
  /\ \E s \in Slots :
       /\ IsSome(voices[s])
       /\ ~voices[s].releasing
       /\ voices[s].amp_envelope.state = "Idle"

\* the live voice of slot s was created in this call by the k-th event applied
CreatedBy(s, k) ==
  /\ IsSome(voices[s])
  /\ applied[k].created
  /\ applied[k].slot = s
  /\ \A j \in (k + 1) .. Len(applied) :
       ~(applied[j].created /\ applied[j].slot = s)

\* the live voice of slot s carries a voice id the host supplied
HasExplicitVoiceId(s) ==
  \E k \in 1 .. Len(applied) :
    CreatedBy(s, k) /\ applied[k].ev.voice_id # None

\* the live voice of slot s was created by an event without voice id (in this
\* call or in an earlier one)
HasFallbackVoiceId(s) ==
  IsSome(voices[s]) /\ ~HasExplicitVoiceId(s)

\* C12: no two live voices carry the same host-supplied voice id.
C12_UniqueExplicitVoiceIds ==
  \A s, t \in Slots :
    (s # t /\ HasExplicitVoiceId(s) /\ HasExplicitVoiceId(t)) =>
      voices[s].voice_id # voices[t].voice_id

\* C13: among the live voices created by events without voice id no two are on
\* the same channel and note.
C13_OneFallbackVoicePerNote ==
  \A s, t \in Slots :
    (s # t /\ HasFallbackVoiceId(s) /\ HasFallbackVoiceId(t)) =>
      ~(voices[s].channel = voices[t].channel /\ voices[s].note = voices[t].note)

\* the stage changes of the forward order, Hold being optional
Forward ==
  { << "Attack", "Hold" >>, << "Attack", "Decay" >>, << "Hold", "Decay" >>,
    << "Decay", "Sustain" >>, << "Sustain", "Release" >>, << "Release", "Idle" >> }

\* the step is one half of a sample: advance() or get_value()
SampleStep == env_log'.op \in {"advance", "get_value"}

\* C14: a stage change made by advance() or get_value() is one step of the
\* forward order; a release request changes the stage only of an envelope that
\* is not Idle, to Release; a trigger changes it to Attack; and an Idle envelope
\* stays Idle under advance() and get_value(), which returns 0.
C14_ForwardOrder ==
  [][ /\ (env'.state # env.state) =>
           \/ (SampleStep /\ << env.state, env'.state >> \in Forward)
           \/ /\ env_log'.op \in {"set_envelope_stage", "release"}
              /\ env.state # "Idle"
              /\ env'.state = "Release"
           \/ (env_log'.op = "trigger" /\ env'.state = "Attack")
      /\ (env.state = "Idle" /\ SampleStep) => env'.state = "Idle"
      /\ (env.state = "Idle" /\ env_log'.op = "get_value") =>
           env_value' = Fin(0, 1) ]_vars

\* C15: advance() and get_value() leave an envelope that is in Sustain in
\* Sustain, and get_value() returns its sustain level.
C15_SustainHolds ==
  [][ (env.state = "Sustain" /\ SampleStep) =>
        /\ env'.state = "Sustain"
        /\ env_log'.op = "get_value" => env_value' = Level(env.sustain) ]_vars

\* C16: an envelope on which a release was requested is Idle once the samples
\* taken since the request cover its release duration.
C16_ReleasedReachesIdle ==
  (env_log.released /\ env_log.op = "get_value" /\ env.state # "Idle") =>
    env_log.since * env.delta_time_per_sample < env.release

\* C16 witness: a release was requested during Attack, on an envelope of
\* velocity 0 with a release duration of several samples, and the envelope has
\* reached Idle.
C16_Witness ==
  /\ env_log.released
  /\ env_log.released_from = "Attack"
  /\ env_log.op = "get_value"
  /\ env_log.from = "Release"
  /\ env.state = "Idle"
  /\ env.velocity = 0
  /\ env_log.since >= 2

\* C17: get_value() never returns an undefined value (a division by a duration
\* of 0), and the first value of an envelope whose attack lasts 0 is the peak 1.
C17_ZeroDurationsJump ==
  /\ env_value.k = "fin"
  /\ (env_log.op = "get_value" /\ env_log.samples = 1 /\ env.attack = 0) =>
       env_value = Fin(1, 1)

\* C18: every value get_value() returns lies in [0, 1].
C18_ValueInUnitRange ==
  /\ env_value.k = "fin"
  /\ 0 <= env_value.num
  /\ env_value.num <= env_value.den

\* the slot of the voice a PolyModulation event is delivered to: the first
\* live voice that carries its voice id
TargetSlot(ev) ==
  CHOOSE s \in Slots :
    /\ IsSome(voices[s])
    /\ voices[s].voice_id = ev.voice_id
    /\ \A t \in 0 .. (s - 1) :
         ~(IsSome(voices[t]) /\ voices[t].voice_id = ev.voice_id)

\* C19: when a PolyModulation event of the gain is applied and the voice it is
\* delivered to was created at or after the sequence-number snapshot of the
\* sub-block, that voice's gain smoother is at the target value at once:
\* current and target both equal the modulated value and no step is left.
C19_NewVoiceGainIsReset ==
  [][ ( /\ AppliesStep("PolyModulation")
        /\ next_event[1].poly_modulation_id = GAIN_POLY_MOD_ID
        /\ \E s \in Slots :
             IsSome(voices[s]) /\ voices[s].voice_id = next_event[1].voice_id
        /\ voices[TargetSlot(next_event[1])].internal_voice_id
             >= this_sample_internal_voice_id_start )
      =>
        LET s == TargetSlot(next_event[1])
            target == preview_modulated(next_event[1].normalized_offset)
        IN  /\ IsSome(voices'[s])
            /\ voices'[s].voice_gain # None
            /\ voices'[s].voice_gain[1][2].current = target
            /\ voices'[s].voice_gain[1][2].target = target
            /\ voices'[s].voice_gain[1][2].steps_left = 0 ]_vars

\* C19 witness: a NoteOn and then a PolyModulation of the gain for the voice id
\* of that NoteOn have been applied in the same sub-block, and the voice the
\* NoteOn started has its gain smoother on the modulated value, away from the
\* global one.
C19_Witness ==
  /\ JustApplied("PolyModulation")
  /\ Len(applied) = 2
  /\ applied[1].ev.kind = "NoteOn"
  /\ applied[1].ev.voice_id = Some(LastApplied.ev.voice_id)
  /\ LastApplied.slot = applied[1].slot
  /\ LastApplied.ev.poly_modulation_id = GAIN_POLY_MOD_ID
  /\ voices[LastApplied.slot].voice_gain # None
  /\ voices[LastApplied.slot].voice_gain[1][2].current
       = preview_modulated(LastApplied.ev.normalized_offset)
  /\ voices[LastApplied.slot].voice_gain[1][2].current # preview_plain(GainUnmodulated)

\* C20: a PolyPressure, PolyVolume, PolyPan, PolyTuning or PolyVibrato event
\* that no live voice matches leaves one more live voice, which carries the
\* event's channel and note (and its voice id when it has one); such an event
\* that a live voice matches leaves the set of live voices as it was.
C20_PolyEventFindsOrCreates ==
  [][ (\E k \in {"PolyPressure", "PolyVolume", "PolyPan", "PolyTuning",
                 "PolyVibrato"} : AppliesStep(k)) =>
        LET ev == next_event[1]
            matched == \E s \in Slots :
                         IsSome(voices[s]) /\ SpecMatches(ev, voices[s])
        IN  IF matched
            THEN LiveSlots(voices') = LiveSlots(voices)
            ELSE /\ Cardinality(LiveSlots(voices'))
                      = Cardinality(LiveSlots(voices)) + 1
                 /\ \E s \in LiveSlots(voices') \ LiveSlots(voices) :
                      /\ voices'[s].channel = ev.channel
                      /\ voices'[s].note = ev.note
                      /\ ev.voice_id # None =>
                           voices'[s].voice_id = ev.voice_id[1] ]_vars

\* C21: after a PolyPan (PolyPressure) event that a live voice matches, every
\* live voice it matches has the event's value as its pan (pressure).
C21_PolyExpressionSetsField ==
  [][ (AppliesStep("PolyPan") \/ AppliesStep("PolyPressure"))
      =>
      \A s \in Slots :
        ( /\ IsSome(voices[s])
          /\ SpecMatches(next_event[1], voices[s])
          /\ IsSome(voices'[s]) )
        =>
          IF next_event[1].kind = "PolyPan"
          THEN voices'[s].pan = next_event[1].value
          ELSE voices'[s].pressure = next_event[1].value ]_vars

\* a PolyModulation or MonoAutomation event is pending whose modulation id is
\* not the gain's
UnknownModulationPending ==
  /\ Pending({"PolyModulation", "MonoAutomation"})
  /\ next_event[1].poly_modulation_id # GAIN_POLY_MOD_ID

\* C22: a PolyModulation or MonoAutomation event with an unknown modulation id
\* leaves the pool, the counters and the announcements as they were, is not
\* fatal, and the events loop goes on with the event that follows it.
C22_UnknownModulationIgnored ==
  [][ UnknownModulationPending =>
        /\ voices' = voices
        /\ next_voice_index' = next_voice_index
        /\ next_internal_voice_id' = next_internal_voice_id
        /\ sent' = sent
        /\ output' = output
        /\ fatal' = "none"
        /\ pc' = "events"
        /\ next_event' = context_next_event(context, events)[1]
        /\ events' = context_next_event(context, events)[2] ]_vars

\* C22 witness: a PolyModulation with an unknown id for the voice id of a live
\* voice was applied first, and the NoteOn that followed it has started a voice.
C22_Witness ==
  /\ JustApplied("NoteOn")
  /\ Len(applied) = 2
  /\ applied[1].ev.kind = "PolyModulation"
  /\ applied[1].ev.poly_modulation_id # GAIN_POLY_MOD_ID
  /\ applied[1].slot \in Slots
  /\ LastApplied.created
  /\ IsSome(voices[LastApplied.slot])
  /\ voices[applied[1].slot].voice_gain = None

\* C23: a render call of 0 samples without events returns at once with the
\* normal status: the only step such a call takes is its start, which leaves
\* the pool and the counters as they were, announces nothing, writes no output
\* sample and ends the call.
C23_EmptyCallIsNoOp ==
  [][ (pc' # "idle" /\ num_samples' = 0 /\ supplied' = << >>) =>
        /\ last_op' = "begin"
        /\ pc' = "done"
        /\ fatal' = "none"
        /\ voices' = voices
        /\ next_voice_index' = next_voice_index
        /\ next_internal_voice_id' = next_internal_voice_id
        /\ sent' = << >>
        /\ applied' = << >>
        /\ \A ch \in DOMAIN output' : output'[ch] = << >> ]_vars

\* C23 witness: a render call of 0 samples without events has returned on a
\* pool of 15 voices.
C23_Witness ==
  /\ pc = "done"
  /\ last_op = "begin"
  /\ num_samples = 0
  /\ supplied = << >>
  /\ Cardinality(LiveSlots(voices)) = 15

\* C24: the sample generate_waveform returns lies in [-1, 1], for every
\* waveform, every phase in [0, 1) and every value of the random source.
C24_WaveformInUnitRange ==
  wave.returned =>
    /\ wave.sample.k = "fin"
    /\ Abs(wave.sample.num) <= wave.sample.den

\* C25: over consecutive process calls on a filter on which nothing else is
\* called, so that its cutoff, bandwidth and sample rate are never set in
\* between, the coefficients are computed at most once (the computation made
\* by the constructor is not counted).
C25_CoefficientsComputedOnce ==
  notch.requests = 0 => notch.computed - 1 <= 1

\* the step renders a sub-block
RendersStep == pc = "events" /\ last_op' = "render"

\* C26: the render loop always ends by returning with block_start = N, never
\* by a panic; every sub-block it renders starts where the one before ended,
\* is not empty, has at most MAX_BLOCK_SIZE samples and ends within the buffer,
\* and when the call returns the sub-blocks have covered every sample of
\* [0, N) exactly once.
C26_BlocksPartitionBuffer ==
  /\ [](pc # "panic")
  /\ [](pc = "done" =>
          /\ block_start = num_samples
          /\ \A ch \in 0 .. 1 : \A i \in 1 .. num_samples :
                output[ch][i].zeroed = 1)
  /\ [][ RendersStep =>
           /\ block_start' > block_start
           /\ block_start' - block_start <= MAX_BLOCK_SIZE
           /\ block_start' <= num_samples
           /\ \A ch \in 0 .. 1 : \A i \in 1 .. num_samples :
                 output'[ch][i].zeroed =
                   output[ch][i].zeroed
                     + (IF block_start < i /\ i <= block_start' THEN 1 ELSE 0)
         ]_vars

\* C27: a NoteOn on a full pool changes exactly one slot, and no other voice
\* of the pool has a smaller internal sequence number than the voice that
\* slot held; the slot then holds the new voice.
C27_StealOverwritesOldestOnly ==
  [][ ( /\ AppliesStep("NoteOn")
        /\ Cardinality(LiveSlots(voices)) = NUM_VOICES )
      =>
      \E o \in Slots :
        /\ \A t \in Slots :
             voices[o].internal_voice_id <= voices[t].internal_voice_id
        /\ IsSome(voices'[o])
        /\ voices'[o].internal_voice_id = next_internal_voice_id
        /\ \A t \in Slots \ {o} : voices'[t] = voices[t] ]_vars

\* C27 witness: two NoteOns have been applied on a full pool of voices of 16
\* different ages; the first took slot 0 and the second slot 1.
C27_Witness ==
  /\ JustApplied("NoteOn")
  /\ Len(applied) = 2
  /\ applied[1].ev.kind = "NoteOn"
  /\ applied[1].live_before = NUM_VOICES
  /\ applied[2].live_before = NUM_VOICES
  /\ applied[1].slot = 0
  /\ applied[2].slot = 1
  /\ voices[0].internal_voice_id = NUM_VOICES
  /\ voices[1].internal_voice_id = NUM_VOICES + 1

\* C28: a NoteOn while a slot is free puts the new voice into a slot that was
\* free, leaves every other slot as it was and announces nothing.
C28_FreeSlotFrame ==
  [][ ( /\ AppliesStep("NoteOn")
        /\ Cardinality(LiveSlots(voices)) < NUM_VOICES )
      =>
      /\ \E f \in Slots :
           /\ ~IsSome(voices[f])
           /\ IsSome(voices'[f])
           /\ voices'[f].internal_voice_id = next_internal_voice_id
           /\ voices'[f].note = next_event[1].note
           /\ voices'[f].channel = next_event[1].channel
           /\ \A t \in Slots \ {f} : voices'[t] = voices[t]
      /\ sent' = sent ]_vars

\* C28 witness: a NoteOn has been applied on a pool of 15 voices and the pool
\* is now full, the 15 voices being as they were.
C28_Witness ==
  /\ JustApplied("NoteOn")
  /\ Len(applied) = 1
  /\ LastApplied.live_before = NUM_VOICES - 1
  /\ LastApplied.slot = NUM_VOICES - 1
  /\ Cardinality(LiveSlots(voices)) = NUM_VOICES
  /\ sent = << >>
  /\ \A t \in 0 .. (NUM_VOICES - 2) : voices[t] = WarmUp(NUM_VOICES - 1).voices[t]

\* C29: no two live voices share an internal sequence number, and every live
\* voice has a number below the one the next voice created will be given.
C29_InternalIdsIncrease ==
  /\ \A s, t \in LiveSlots(voices) :
       s # t => voices[s].internal_voice_id # voices[t].internal_voice_id
  /\ \A s \in LiveSlots(voices) :
       voices[s].internal_voice_id < next_internal_voice_id

\* C30: when a NoteOff is the last event applied, every live voice it selected
\* is gone once the samples its release still needed have been rendered and
\* the sub-block holding the last of them is complete: its slot is empty and a
\* VoiceTerminated with its voice id, channel and note has been sent.
C30_ReleasedVoiceIsReaped ==
  ( /\ pc \in {"events", "done"}
    /\ applied # << >>
    /\ LastApplied.ev.kind = "NoteOff" )
  =>
    \A v \in LastApplied.targets :
      (v.needs > 0 /\ block_start >= LastApplied.rendered + v.needs) =>
        /\ ~IsSome(voices[v.slot])
        /\ \E i \in 1 .. Len(sent) :
             /\ sent[i].voice_id = Some(v.voice_id)
             /\ sent[i].channel = v.channel
             /\ sent[i].note = v.note
             /\ sent[i].timing >= LastApplied.rendered + v.needs

\* C30 witness: a call has returned in which a NoteOff, the only event, found
\* a live voice whose release needed more than one sample; the slot is empty.
C30_Witness ==
  /\ pc = "done"
  /\ Len(applied) = 1
  /\ LastApplied.ev.kind = "NoteOff"
  /\ \E v \in LastApplied.targets :
       /\ v.needs > 1
       /\ block_start >= LastApplied.rendered + v.needs
       /\ ~IsSome(voices[v.slot])
       /\ sent # << >>

\* C31: every VoiceTerminated a step of a render call sends carries the voice
\* id, the channel and the note of a voice that was live before the step and
\* that the step took out of its slot.
C31_TerminatedNamesRemovedVoice ==
  [][ pc = "events" =>
        \A i \in 1 .. Len(NewlySent) :
          \E s \in Slots :
            /\ IsSome(voices[s])
            /\ voices'[s] # voices[s]
            /\ NewlySent[i].voice_id = Some(voices[s].voice_id)
            /\ NewlySent[i].channel = voices[s].channel
            /\ NewlySent[i].note = voices[s].note ]_vars

\* the voice of slot s is live before the step and gone after it: its slot is
\* empty, or holds the voice the event of the step created
RemovedByStep(s) ==
  /\ IsSome(voices[s])
  /\ \/ ~IsSome(voices'[s])
     \/ /\ last_op' = "event"
        /\ Len(applied') = Len(applied) + 1
        /\ applied'[Len(applied')].created
        /\ applied'[Len(applied')].slot = s

\* C32: a step of a render call sends, for each voice id, no more
\* VoiceTerminated events than it removes live voices carrying that id: each
\* notification belongs to a voice that was live when the step began and is
\* gone when it ends, so none is sent twice for one voice or for a free slot.
C32_OneTerminationPerVoice ==
  [][ pc = "events" =>
        \A i \in 1 .. Len(NewlySent) :
          Cardinality({j \in 1 .. Len(NewlySent) :
                         NewlySent[j].voice_id = NewlySent[i].voice_id})
            <= Cardinality({s \in Slots :
                              /\ RemovedByStep(s)
                              /\ Some(voices[s].voice_id) = NewlySent[i].voice_id}) ]_vars

\* a call in which a full pool lost one voice to a new note and another to a
\* Choke, each announced once
C32_Witness ==
  /\ Len(sent) = 2
  /\ sent[1].voice_id # sent[2].voice_id
  /\ \E i, j \in 1 .. Len(applied) :
       /\ applied[i].ev.kind = "NoteOn"
       /\ applied[j].ev.kind = "Choke"
       /\ Cardinality({s \in Slots : IsSome(voices[s])}) = NUM_VOICES - 1

\* the time since the release request, at the sample a get_value step returns
SinceRelease == (env_log.since + 1) * env.delta_time_per_sample

\* C33: after an envelope was released in Attack, Hold or Decay, each sample
\* it returns lies on the straight line from the level it had when it was
\* released to 0 at the end of the release duration; from then on it returns 0
\* and is Idle, and it enters Idle with its time accumulator at 0.
C33_ReleaseRampsFromLevel ==
  [][ ( /\ env_log.released
        /\ env_log.released_from \in {"Attack", "Hold", "Decay"}
        /\ env_log.phase = "advanced"
        /\ env_log'.phase = "ready" )
      => IF SinceRelease < env.release
         THEN /\ env'.state = "Release"
              /\ env_value' = Mul(env_log.released_level,
                                  OneMinus(Div(SinceRelease, env.release)))
         ELSE /\ env'.state = "Idle"
              /\ env_value' = Fin(0, 1)
              /\ (env.state # "Idle" => env'.time = 0) ]_vars

\* the voice of slot s was created before the current sub-block began: no
\* event applied since the sub-block started has put a voice there
CreatedInEarlierBlock(s) ==
  /\ IsSome(voices[s])
  /\ \A k \in 1 .. Len(applied) :
       ~(applied[k].created /\ applied[k].slot = s
         /\ applied[k].rendered = block_start)

\* C34: when a PolyModulation event of the gain is applied to a voice created
\* in an earlier sub-block, by a NoteOn or by a polyphonic expression event,
\* the voice's number is below the snapshot of the sub-block and its gain
\* smoother keeps its current value: only the target is set.
C34_OldVoiceGainKeepsCurrent ==
  [][ ( /\ AppliesStep("PolyModulation")
        /\ next_event[1].poly_modulation_id = GAIN_POLY_MOD_ID
        /\ \E s \in Slots :
             IsSome(voices[s]) /\ voices[s].voice_id = next_event[1].voice_id
        /\ CreatedInEarlierBlock(TargetSlot(next_event[1])) )
      =>
        LET s == TargetSlot(next_event[1])
            before == IF voices[s].voice_gain = None THEN GainSmoothed
                      ELSE voices[s].voice_gain[1][2]
        IN  /\ voices[s].internal_voice_id < this_sample_internal_voice_id_start
            /\ voices'[s].voice_gain # None
            /\ voices'[s].voice_gain[1][2].current = before.current
            /\ voices'[s].voice_gain[1][2].target
                 = preview_modulated(next_event[1].normalized_offset) ]_vars

\* C35: a PolyPressure, PolyPan, PolyTuning or PolyVibrato event leaves the
\* velocity of every live voice it matches as it was, and the attack, decay,
\* sustain and release of that voice's amplitude envelope as well.
C35_PolyExpressionKeepsVelocity ==
  [][ (\E k \in {"PolyPressure", "PolyPan", "PolyTuning", "PolyVibrato"} :
         AppliesStep(k))
      =>
      \A s \in Slots :
        ( /\ IsSome(voices[s])
          /\ SpecMatches(next_event[1], voices[s])
          /\ IsSome(voices'[s]) )
        =>
        /\ voices'[s].velocity = voices[s].velocity
        /\ voices'[s].amp_envelope.attack = voices[s].amp_envelope.attack
        /\ voices'[s].amp_envelope.decay = voices[s].amp_envelope.decay
        /\ voices'[s].amp_envelope.sustain = voices[s].amp_envelope.sustain
        /\ voices'[s].amp_envelope.release = voices[s].amp_envelope.release ]_vars

\* C36 (as claimed): when start_voice takes a slot for a new note, the new
\* Voice begins with the filter memory the slot's last occupant left.
C36_FilterMemoryKeptOnReuse ==
  [][ (~chain.started /\ chain'.started)
      => chain'.highpass_filter = chain.highpass_filter ]_vars

\* C36 (amended): when start_voice takes a slot for a new note, the new Voice
\* begins with the memory of a newly built filter, whatever the slot's last
\* occupant left.
C36_FilterMemoryNewOnReuse ==
  [][ (~chain.started /\ chain'.started)
      => chain'.highpass_filter.prev_input = Fin(0, 1) ]_vars

\* the slot's last occupant left its filter with an input in memory, and the
\* new Voice has none
C36_Witness ==
  /\ chain.started
  /\ chain.value_idx = 0
  /\ chain.left_over.prev_input # Fin(0, 1)
  /\ chain.highpass_filter.prev_input = Fin(0, 1)

\* C37: from the second sample of a voice in a sub-block on, the DC blocker
\* returns x[n] - x[n-1] + 0.995 * y[n-1], x[n-1] and y[n-1] being what went
\* into and came out of the blocker for the voice's sample before.
C37_DCBlockerKeepsMemory ==
  [][ (chain.value_idx > 0 /\ chain'.value_idx = chain.value_idx + 1)
      => chain'.dc_out
           = Add(Add(chain'.dc_in, Mul(Fin(-1, 1), chain.dc_in)),
                 Mul(Fin(199, 200), chain.dc_out)) ]_vars

\* C38: in a sub-block of block_len samples a voice with polyphonic gain
\* modulation has its sample i scaled by the value its gain smoother has after
\* i steps of that sub-block (steps of one ratio, equal steps of the level in
\* decibels), and at the end of the sub-block the smoother has taken block_len
\* steps.
C38_SmootherStepsOncePerSample ==
  [][ (chain.voice_gain # None /\ chain'.value_idx = chain.value_idx + 1)
      => LET start == chain.ramp_at_start[1]
             ramp == start.steps_left
             i == chain'.value_idx
             after_i == IF ramp > i
                        THEN Add(Mul(start.current, Fin(ramp - i, ramp)),
                                 Mul(start.target, Fin(i, ramp)))
                        ELSE start.target
         IN  /\ chain'.gain_used = Some(after_i)
             /\ i = chain.block_len
                  => /\ chain'.voice_gain[1].current
                          = (IF ramp = 0 THEN start.current ELSE after_i)
                     /\ chain'.voice_gain[1].steps_left
                          = (IF ramp > i THEN ramp - i ELSE 0) ]_vars

\* C39: every sample of a sub-block after the first is rendered with the
\* parameter values the sample before it was rendered with, whatever the
\* editor thread stores meanwhile.
C39_OneSnapshotPerBlock ==
  [][ (chain.value_idx > 0 /\ chain'.value_idx = chain.value_idx + 1)
      => chain'.read = chain.read ]_vars

====
